---------------------------- MODULE Spec2Model ----------------------------
(***************************************************************************)
(* Model of the multi-strategy scheduler of FyersAlgo                      *)
(* (EnhancedMultiStrategyWithScalping) and of the three strategies it      *)
(* drives: GapUpShortStrategy, OpenBreakoutStrategy, Level2ScalpingStrategy*)
(*                                                                         *)
(* Time is kept as ages: every timestamp the program stores is modelled by *)
(* the number of ticks elapsed since it was taken, saturated at AgeCap.    *)
(* The wall clock is read once per scheduler cycle and advances while the  *)
(* loop sleeps between two cycles.  The time of day is one of the segments *)
(* cut by the window boundaries the program compares the clock against.    *)
(*                                                                         *)
(* The three cycle coroutines are asyncio tasks: a task runs without       *)
(* interruption until it suspends (asyncio.sleep after an executed trade)  *)
(* or ends; the event loop's ready queue is FIFO.                          *)
(***************************************************************************)
EXTENDS Integers, Sequences, FiniteSets, TLC

(***************************************************************************)
(* Bounds of the model                                                     *)
(***************************************************************************)
\* StrategyConfig.max_positions is drawn from 1..MaxCap
MaxCap == 2
\* MultiStrategyScalpingConfig.max_total_positions
MaxTotal == 2
\* the broker accepts at most MaxEntries entry orders in a run, then rejects
MaxEntries == 3
\* ScalpingConfig.max_hold_seconds, in ticks
MaxHoldTicks == 1
\* ScalpingConfig.cooldown_seconds, in ticks
SignalCooldownTicks == 2
\* MultiStrategyScalpingConfig.cross_strategy_cooldown_minutes, in ticks
CrossCooldownTicks == 2
\* the loop's sleep between two cycles lasts 1..MaxStep ticks
MaxStep == 2
\* a run is followed for MaxCycles scheduler cycles inside trading hours
MaxCycles == 3
\* at most MaxFailures cycle coroutines end through their except in one scheduler cycle
MaxFailures == 1

Max2(a, b) == IF a >= b THEN a ELSE b
\* ages saturate here: no comparison of the program tells larger ages apart
AgeCap == Max2(MaxHoldTicks, Max2(SignalCooldownTicks, CrossCooldownTicks))

\* None where the code holds a number: ages and counts are never negative
None == 0 - 1

(***************************************************************************)
(* Universe: symbols and sectors as the three signal services list them    *)
(***************************************************************************)
Strategies == {"gap_up", "breakout", "scalping"}

Symbols == {"TCS.NS", "WIPRO.NS", "HDFCBANK.NS"}

\* SignalGenerationService.stock_sectors, restricted to Symbols
stock_sectors ==
  [s \in {"TCS.NS", "WIPRO.NS"} |-> "IT"]

\* OpenBreakoutSignalService.breakout_stocks, restricted to Symbols
breakout_stocks ==
  [s \in {"TCS.NS", "HDFCBANK.NS"} |-> IF s = "HDFCBANK.NS" THEN "BANKING" ELSE "IT"]

\* Level2ScalpingSignalService.scalping_universe, restricted to Symbols
\* (WIPRO.NS is not in the scalping universe)
scalping_universe ==
  [s \in {"TCS.NS"} |-> "IT"]

Sectors == {"IT", "BANKING"}

Universe(t) ==
  IF t = "gap_up" THEN stock_sectors
  ELSE IF t = "breakout" THEN breakout_stocks
  ELSE scalping_universe

(***************************************************************************)
(* Configuration (load_enhanced_config), with the limits drawn from the    *)
(* bounds above.  Prices and money are in ticks of 0.05.                   *)
(***************************************************************************)
Configs ==
  [ max_positions               : 1..MaxCap,    \* StrategyConfig (gap-short), MAX_POSITIONS
    max_positions_per_strategy  : {1},          \* BreakoutConfig
    scalping_max_positions      : {1},          \* ScalpingConfig.max_positions
    max_total_positions         : {MaxTotal},   \* MultiStrategyScalpingConfig
    max_gap_up_positions        : {1},
    max_breakout_positions      : {1},
    allow_scalping_during_signals : BOOLEAN ]

(***************************************************************************)
(* Time of day (MarketTimingService, is_breakout_time, is_scalping_time)   *)
(* with the hours load_enhanced_config sets: market 09:15-15:30, signal    *)
(* generation until 10:30, opening range 15 minutes.                       *)
(***************************************************************************)
DaySegments ==
  << "closed",          \* after 15:30 and before 09:15
     "opening_range",   \* 09:15 - 09:30
     "signal_window",   \* 09:30 - 10:30
     "breakout_window", \* 10:30 - 11:30
     "midday",          \* 11:30 - 15:00
     "closing" >>       \* 15:00 - 15:30

SegIndex(seg) == CHOOSE i \in 1..Len(DaySegments) : DaySegments[i] = seg

NextSegment(seg) ==
  IF SegIndex(seg) = Len(DaySegments) THEN DaySegments[1]
  ELSE DaySegments[SegIndex(seg) + 1]

is_trading_time(seg) ==
  seg \in {"opening_range", "signal_window", "breakout_window", "midday", "closing"}

is_signal_generation_time(seg) ==
  /\ is_trading_time(seg)
  /\ seg \in {"opening_range", "signal_window"}

is_breakout_time(seg) ==
  /\ is_trading_time(seg)
  /\ seg \in {"signal_window", "breakout_window"}

is_scalping_time(seg) ==
  /\ is_trading_time(seg)
  /\ seg \in {"signal_window", "breakout_window", "midday"}


(***************************************************************************)
(* State                                                                   *)
(***************************************************************************)
VARIABLES
  cfg,                   \* the configuration objects, fixed at construction
  clock,                 \* time of day: a segment of DaySegments
  main_pc,               \* EnhancedMultiStrategyWithScalping.run: "loop", "gather", "sleep"
  scalping_allowed,      \* local of run_all_strategies_with_scalping
  queue,                 \* ready queue of the event loop: the cycle tasks, FIFO
  pc,                    \* per strategy: the step of its cycle coroutine
  pending,               \* per strategy: the signals its execution loop has not reached yet
  positions,             \* per strategy: self.positions, symbol -> Position
  position_entry_times,  \* Level2ScalpingStrategy.position_entry_times, symbol -> age
  recent_signals,        \* Level2ScalpingSignalService.recent_signals, symbol -> age
  daily_pnl,             \* per strategy
  total_pnl,             \* per strategy
  trades_today,          \* Level2ScalpingStrategy.trades_today
  total_portfolio_pnl,   \* scheduler
  daily_portfolio_pnl,   \* scheduler
  last_non_scalping_trade_time,  \* scheduler: None or the age of the timestamp
  last_activity_count,   \* scheduler: _last_activity_count, None while the attribute is unset
  accepted,              \* broker: entry orders accepted so far
  cycle_log,             \* per strategy: the steps its running cycle has completed, in order
  main_log,              \* the steps run_all_strategies_with_scalping has completed
  last_open_age,         \* None or the age of the latest gap-short/breakout entry
  close_orders,          \* broker: the symbols a market close order was placed for in this cycle
  cycles,                \* the scheduler cycles started so far
  call,                  \* a service function called on its own: its arguments and its result
  risk_manager           \* the RiskManager object, where one has been constructed

vars == << cfg, clock, main_pc, scalping_allowed, queue, pc, pending, positions,
           position_entry_times, recent_signals, daily_pnl, total_pnl, trades_today,
           total_portfolio_pnl, daily_portfolio_pnl, last_non_scalping_trade_time,
           last_activity_count, accepted, cycle_log, main_log,
           last_open_age, close_orders, cycles, call, risk_manager >>

(***************************************************************************)
(* Helpers on dicts, ages and sequences                                    *)
(***************************************************************************)
EmptyDict == << >>

Put(f, k, v) == [x \in (DOMAIN f) \cup {k} |-> IF x = k THEN v ELSE f[x]]

Remove(f, K) == [x \in (DOMAIN f) \ K |-> f[x]]

Count(f) == Cardinality(DOMAIN f)

Older(a, d) == IF a + d >= AgeCap THEN AgeCap ELSE a + d

AgeAll(f, d) == [x \in DOMAIN f |-> Older(f[x], d)]

RECURSIVE SumOver(_, _)
SumOver(f, S) ==
  IF S = {} THEN 0
  ELSE LET x == CHOOSE y \in S : TRUE IN f[x] + SumOver(f, S \ {x})

Append1(log, e) == IF \E i \in 1..Len(log) : log[i] = e THEN log ELSE Append(log, e)

Before(log, a, b) ==
  \A j \in 1..Len(log) : log[j] = b => \E i \in 1..(j - 1) : log[i] = a

(***************************************************************************)
(* PositionManagementService                                               *)
(***************************************************************************)
\* risk_amount / |stop_loss - entry_price|, portfolio_value 2,000,000 ticks
\* and risk_per_trade_pct 1.0
calculate_position_size(signal) ==
  LET risk_amount == (2000000 * 1) \div 100
      price_risk  == IF signal.stop_loss >= signal.entry_price
                     THEN signal.stop_loss - signal.entry_price
                     ELSE signal.entry_price - signal.stop_loss
  IN  IF price_risk <= 0 THEN 0
      ELSE LET quantity == risk_amount \div price_risk
           IN  IF quantity >= 0 THEN quantity ELSE 0

\* exit price is assumed to be the stop
calculate_realized_pnl(position) ==
  (position.entry_price - position.stop_loss) * position.quantity

\* the order in which the loop of monitor_positions visits the symbols (the
\* model does not keep the insertion order of the positions dict)
SymbolOrder == << "TCS.NS", "WIPRO.NS", "HDFCBANK.NS" >>

\* the status values of an order in the broker's order book
OrderStatus == {"PENDING", "TRADED", "COMPLETE"}

\* _find_order_info and the status test that follows it: current_orders maps
\* the ids of the orders the broker lists to their status
order_executed(order_id, current_orders) ==
  /\ order_id \in DOMAIN current_orders
  /\ current_orders[order_id] \in {"TRADED", "COMPLETE"}

RECURSIVE ClosedRecords(_, _, _)
\* pnl_summary.closed_positions: one record for each symbol of `closed`
ClosedRecords(pos, order, closed) ==
  IF order = << >> THEN << >>
  ELSE LET sym  == Head(order)
           rest == ClosedRecords(pos, Tail(order), closed)
       IN  IF sym \in closed
           THEN << [ symbol |-> sym, reason |-> "BRACKET_EXECUTED",
                     pnl |-> calculate_realized_pnl(pos[sym]) ] >> \o rest
           ELSE rest

RECURSIVE SumPnl(_)
\* pnl_summary.realized_pnl: the sum the loop accumulates
SumPnl(records) ==
  IF records = << >> THEN 0 ELSE Head(records).pnl + SumPnl(Tail(records))

\* Faulty variant of monitor_positions: the order of a position that is
\* absent at the broker is not looked up.  C13_MonitorRemoval fails on it.
monitor_positions_without_order_lookup(pos, broker_positions, current_orders, raised, failed) ==
  LET closed  == IF failed THEN {}
                 ELSE { s \in DOMAIN pos : s \notin raised /\ s \notin broker_positions }
      records == ClosedRecords(pos, SymbolOrder, closed)
  IN  [ positions        |-> Remove(pos, closed),
        realized_pnl     |-> SumPnl(records),
        closed_positions |-> records ]

\* Faulty variant of monitor_positions: the closed symbols are reported but
\* not deleted from the dict.  C14_MonitorIdempotent fails on it.
monitor_positions_without_delete(pos, broker_positions, current_orders, raised, failed) ==
  LET closed  == IF failed THEN {}
                 ELSE { s \in DOMAIN pos :
                          /\ s \notin raised
                          /\ s \notin broker_positions
                          /\ order_executed(pos[s].order_id, current_orders) }
      records == ClosedRecords(pos, SymbolOrder, closed)
  IN  [ positions        |-> pos,
        realized_pnl     |-> SumPnl(records),
        closed_positions |-> records ]

\* broker_positions: the symbols the broker reports an open position for;
\* current_orders: the broker's order book, order id -> status;
\* raised: the symbols for which a lookup raised inside the loop;
\* failed: get_positions()/get_orders() raised inside the try of monitor_positions.
monitor_positions(pos, broker_positions, current_orders, raised, failed) ==
  LET closed  == IF failed THEN {}
                 ELSE { s \in DOMAIN pos :
                          /\ s \notin raised
                          /\ s \notin broker_positions
                          /\ order_executed(pos[s].order_id, current_orders) }
      records == ClosedRecords(pos, SymbolOrder, closed)
  IN  [ positions        |-> Remove(pos, closed),
        realized_pnl     |-> SumPnl(records),
        closed_positions |-> records ]


(***************************************************************************)
(* Signal services.  What the market data makes a generator emit is the    *)
(* environment's choice: `emitted` maps the symbols that pass the          *)
(* generator's market gates to the confidence (in percent) computed for    *)
(* them, and for scalping to the side as well.  The quote of every symbol  *)
(* is 2000 ticks.                                                          *)
(***************************************************************************)
Confidences == {50, 90}

\* iteration order of the three universe dicts
UniverseOrder(t) ==
  IF t = "gap_up" THEN << "TCS.NS", "WIPRO.NS" >>
  ELSE IF t = "breakout" THEN << "TCS.NS", "HDFCBANK.NS" >>
  ELSE << "TCS.NS" >>

\* a configuration that sets no threshold
min_confidence_zero(t) == 0

\* StrategyConfig.min_confidence 0.6 (gap-short, breakout), ScalpingConfig.min_confidence 0.80
min_confidence(t) == IF t = "scalping" THEN 80 ELSE 60

Emissions(t) ==
  UNION { [S -> (IF t = "scalping"
                 THEN [confidence : Confidences, side : {"LONG", "SHORT"}]
                 ELSE [confidence : Confidences, side : {IF t = "gap_up" THEN "SHORT" ELSE "LONG"}])]
          : S \in SUBSET (DOMAIN Universe(t)) }

\* gap-short: stop 1.5% above the quote; breakout: entry 2061 above the range
\* high 2020 of an open at 2000, stop at the range low 1980; scalping: stop
\* 3 ticks from the quote
MakeSignal(t, sym, e) ==
  [ symbol      |-> sym,
    sector      |-> Universe(t)[sym],
    signal_type |-> IF t = "gap_up" THEN "SHORT"
                    ELSE IF t = "breakout" THEN "LONG_BREAKOUT"
                    ELSE IF e.side = "LONG" THEN "LONG_BID_ASK_IMBALANCE"
                    ELSE "SHORT_BID_ASK_IMBALANCE",
    entry_price |-> IF t = "breakout" THEN 2061 ELSE 2000,
    stop_loss   |-> IF t = "gap_up" THEN 2030
                    ELSE IF t = "breakout" THEN 1980
                    ELSE IF e.side = "LONG" THEN 2000 - 3 ELSE 2000 + 3,
    confidence  |-> e.confidence ]

RECURSIVE SelectSeq2(_, _, _)
\* the signals of the symbols of `order` that satisfy keep, in that order
SelectSeq2(t, order, emitted) ==
  IF order = << >> THEN << >>
  ELSE LET sym  == Head(order)
           rest == SelectSeq2(t, Tail(order), emitted)
       IN  IF sym \in DOMAIN emitted
           THEN << MakeSignal(t, sym, emitted[sym]) >> \o rest
           ELSE rest

DropAt(s, i) == SubSeq(s, 1, i - 1) \o SubSeq(s, i + 1, Len(s))

RECURSIVE SortByConfidence(_)
\* signals.sort(key=confidence, reverse=True): stable, highest first
SortByConfidence(s) ==
  IF s = << >> THEN << >>
  ELSE LET i == CHOOSE k \in 1..Len(s) :
                  /\ \A j \in 1..Len(s) : s[j].confidence <= s[k].confidence
                  /\ \A j \in 1..(k - 1) : s[j].confidence < s[k].confidence
       IN  << s[i] >> \o SortByConfidence(DropAt(s, i))

\* SignalGenerationService.generate_signals
generate_signals(index_gap_up, emitted) ==
  IF ~index_gap_up THEN << >>
  ELSE SortByConfidence(SelectSeq2("gap_up", UniverseOrder("gap_up"), emitted))

\* OpenBreakoutSignalService.generate_breakout_signals: drops what is below
\* strategy_config.min_confidence
generate_breakout_signals(emitted) ==
  LET kept == { s \in DOMAIN emitted : emitted[s].confidence >= min_confidence("breakout") }
  IN  SortByConfidence(SelectSeq2("breakout", UniverseOrder("breakout"),
                                  [s \in kept |-> emitted[s]]))

\* Faulty variant of is_in_cooldown: the recorded time is not looked at.
\* C18_ScalpingCooldown fails on it.
is_in_cooldown_never(recent, sym) == FALSE

\* Level2ScalpingSignalService._is_in_cooldown
is_in_cooldown(recent, sym) ==
  IF sym \notin DOMAIN recent THEN FALSE
  ELSE recent[sym] < SignalCooldownTicks

\* Level2ScalpingSignalService.generate_scalping_signals: the signals and the
\* recent_signals it leaves
generate_scalping_signals(recent, emitted) ==
  LET kept == { s \in DOMAIN emitted :
                  /\ ~is_in_cooldown(recent, s)
                  /\ emitted[s].confidence >= min_confidence("scalping") }
  IN  [ signals |-> SortByConfidence(SelectSeq2("scalping", UniverseOrder("scalping"),
                                                [s \in kept |-> emitted[s]])),
        recent_signals |-> [s \in (DOMAIN recent) \cup kept |->
                               IF s \in kept THEN 0 ELSE recent[s]] ]

(***************************************************************************)
(* Scheduler: the scalping gate                                            *)
(***************************************************************************)
\* Faulty variant of should_allow_scalping: the cool-down row is missing.
\* C7_GateDecisionTable fails on it.
should_allow_scalping_no_cooldown(config, last_trade, seg, gap_count, breakout_count) ==
  IF config.allow_scalping_during_signals THEN TRUE
  ELSE IF is_signal_generation_time(seg)
          /\ ( config.max_gap_up_positions - gap_count > 0
               \/ config.max_breakout_positions - breakout_count > 0 )
       THEN FALSE
  ELSE TRUE

\* EnhancedMultiStrategyWithScalping._should_allow_scalping
should_allow_scalping(config, last_trade, seg, gap_count, breakout_count) ==
  IF config.allow_scalping_during_signals THEN TRUE
  ELSE IF last_trade # None /\ last_trade < CrossCooldownTicks THEN FALSE
  ELSE IF is_signal_generation_time(seg)
          /\ ( config.max_gap_up_positions - gap_count > 0
               \/ config.max_breakout_positions - breakout_count > 0 )
       THEN FALSE
  ELSE TRUE

(***************************************************************************)
(* The cycle coroutines as their steps in order                            *)
(***************************************************************************)
\* GapUpShortStrategy.run_strategy_cycle
run_strategy_cycle == << "monitor_positions", "generate_and_execute", "log_status" >>

\* Faulty variant of run_breakout_cycle: signals before monitoring.
\* C9_MonitorBeforeSignals fails on it.
run_breakout_cycle_signals_first ==
  << "generate_and_execute", "monitor_positions", "log_status" >>

\* OpenBreakoutStrategy.run_breakout_cycle
run_breakout_cycle == << "monitor_positions", "generate_and_execute", "log_status" >>

\* Level2ScalpingStrategy.run_scalping_cycle
run_scalping_cycle ==
  << "check_position_timing", "monitor_positions", "generate_and_execute", "log_status" >>

CycleOf(t) ==
  IF t = "gap_up" THEN run_strategy_cycle
  ELSE IF t = "breakout" THEN run_breakout_cycle
  ELSE run_scalping_cycle

FirstStep(t) == CycleOf(t)[1]

StepAfter(t, step) ==
  LET c == CycleOf(t)
      i == CHOOSE k \in 1..Len(c) : c[k] = step
  IN  IF i = Len(c) THEN "done" ELSE c[i + 1]

\* where a cycle continues after an exception raised in `step`:
\* _generate_and_execute_* catch their own exceptions and return; an
\* exception anywhere else reaches the except of the cycle, which ends it
on_exception(t, step) ==
  IF step \in {"generate_and_execute", "execute"}
  THEN StepAfter(t, "generate_and_execute")
  ELSE "failed"

\* a cycle coroutine that has returned, normally or through its except
Ended == {"done", "failed"}

\* Faulty variant of gather_complete: gather without return_exceptions, which
\* returns at the first task that fails.  C8_FailureIsolation fails on it.
gather_first_exception(task_pc) ==
  \/ \A t \in Strategies : task_pc[t] \in {"idle", "done", "failed"}
  \/ \E t \in Strategies : task_pc[t] = "failed"

\* asyncio.gather(*strategy_tasks, return_exceptions=True) returns when every
\* task it was given has ended
gather_complete(task_pc) ==
  \A t \in Strategies : task_pc[t] \in {"idle"} \cup Ended


(***************************************************************************)
(* Initial state: the objects as their constructors leave them, started at *)
(* any time of day                                                         *)
(***************************************************************************)
\* the books of the strategies, of the scheduler and of the broker before
\* the first trade
NothingTraded ==
  /\ positions = [t \in Strategies |-> EmptyDict]
  /\ position_entry_times = EmptyDict
  /\ recent_signals = EmptyDict
  /\ daily_pnl = [t \in Strategies |-> 0]
  /\ total_pnl = [t \in Strategies |-> 0]
  /\ trades_today = 0
  /\ total_portfolio_pnl = 0
  /\ daily_portfolio_pnl = 0
  /\ last_non_scalping_trade_time = None
  /\ last_activity_count = None
  /\ accepted = 0
  /\ last_open_age = None
  /\ close_orders = {}

Constructed ==
  /\ cfg \in Configs
  /\ clock \in { DaySegments[i] : i \in 1..Len(DaySegments) }
  /\ main_pc = "loop"
  /\ scalping_allowed = FALSE
  /\ queue = << >>
  /\ pc = [t \in Strategies |-> "idle"]
  /\ pending = [t \in Strategies |-> << >>]
  /\ cycle_log = [t \in Strategies |-> << >>]
  /\ main_log = << >>
  /\ cycles = 0
  /\ NothingTraded

\* no service function has been called on its own
NoCall == [ op |-> "none" ]

\* the scheduler and the strategies construct no RiskManager
NoRiskManager == [ constructed |-> FALSE ]

Init ==
  /\ Constructed
  /\ call = NoCall
  /\ risk_manager = NoRiskManager

(***************************************************************************)
(* Scheduler: run() and run_all_strategies_with_scalping()                 *)
(***************************************************************************)
strategy_state == << positions, position_entry_times, recent_signals, daily_pnl,
                     total_pnl, trades_today, accepted, cycle_log,
                     last_open_age, close_orders, pending >>

coordination_state == << last_non_scalping_trade_time, last_activity_count,
                         total_portfolio_pnl, daily_portfolio_pnl >>

\* the timing check fails: sleep 300 s and return
OutsideTradingHours ==
  /\ main_pc = "loop"
  /\ ~is_trading_time(clock)
  /\ main_pc' = "sleep"
  /\ UNCHANGED << cfg, clock, scalping_allowed, queue, pc, main_log, cycles, call,
                  risk_manager >>
  /\ UNCHANGED strategy_state
  /\ UNCHANGED coordination_state

\* the tasks handed to gather, in order
StrategyTasks(allowed) ==
  << "gap_up", "breakout" >> \o (IF allowed THEN << "scalping" >> ELSE << >>)

InSeq(x, s) == \E i \in 1..Len(s) : s[i] = x

\* up to `await asyncio.gather(...)`: the gate is evaluated and the cycle
\* coroutines are created
CycleStart ==
  /\ main_pc = "loop"
  /\ is_trading_time(clock)
  /\ cycles < MaxCycles
  /\ cycles' = cycles + 1
  /\ LET allowed == should_allow_scalping(cfg, last_non_scalping_trade_time, clock,
                                          Count(positions["gap_up"]),
                                          Count(positions["breakout"]))
     IN  /\ scalping_allowed' = allowed
         /\ queue' = StrategyTasks(allowed)
         /\ pc' = [t \in Strategies |->
                     IF InSeq(t, StrategyTasks(allowed)) THEN FirstStep(t) ELSE "idle"]
  /\ main_log' = << "should_allow_scalping", "gather" >>
  /\ main_pc' = "gather"
  /\ UNCHANGED << cfg, clock, call, risk_manager >>
  /\ UNCHANGED strategy_state
  /\ UNCHANGED coordination_state

\* _update_strategy_coordination: the timestamp (as an age) and the count it leaves
update_strategy_coordination(last_time, last_count, gap_count, breakout_count) ==
  LET current_activity == gap_count + breakout_count
  IN  [ last_non_scalping_trade_time |->
          IF last_count # None /\ current_activity > last_count THEN 0 ELSE last_time,
        last_activity_count |-> current_activity ]

\* the aggregation of the scheduler without scalping (main_enhanced.py):
\* C38_PortfolioAggregation fails on it.
update_portfolio_performance_without_scalping(pnl) ==
  pnl["gap_up"] + pnl["breakout"]

\* EnhancedMultiStrategyWithScalping._update_portfolio_performance, for the
\* 'total_pnl' or the 'daily_pnl' entries of the three performance summaries
update_portfolio_performance(pnl) ==
  pnl["gap_up"] + pnl["breakout"] + pnl["scalping"]

\* after gather: _update_portfolio_performance, _log_portfolio_status,
\* _update_strategy_coordination
CycleFinish ==
  /\ main_pc = "gather"
  /\ gather_complete(pc)
  /\ total_portfolio_pnl' = update_portfolio_performance(total_pnl)
  /\ daily_portfolio_pnl' = update_portfolio_performance(daily_pnl)
  /\ LET c == update_strategy_coordination(last_non_scalping_trade_time, last_activity_count,
                                           Count(positions["gap_up"]),
                                           Count(positions["breakout"]))
     IN  /\ last_non_scalping_trade_time' = c.last_non_scalping_trade_time
         /\ last_activity_count' = c.last_activity_count
  /\ main_log' = main_log \o << "update_portfolio_performance", "log_portfolio_status",
                                "update_strategy_coordination" >>
  /\ main_pc' = "sleep"
  /\ UNCHANGED << cfg, clock, scalping_allowed, queue, pc, cycles, call, risk_manager >>
  /\ UNCHANGED strategy_state

\* asyncio.sleep between two cycles: time passes, the next cycle starts afresh
Sleep ==
  /\ main_pc = "sleep"
  /\ \E d \in 1..MaxStep, seg \in {clock, NextSegment(clock)} :
       /\ clock' = seg
       /\ position_entry_times' = AgeAll(position_entry_times, d)
       /\ recent_signals' = AgeAll(recent_signals, d)
       /\ last_non_scalping_trade_time' =
            IF last_non_scalping_trade_time = None THEN None
            ELSE Older(last_non_scalping_trade_time, d)
       /\ last_open_age' = IF last_open_age = None THEN None ELSE Older(last_open_age, d)
  /\ main_pc' = "loop"
  /\ scalping_allowed' = FALSE
  /\ queue' = << >>
  /\ pc' = [t \in Strategies |-> "idle"]
  /\ pending' = [t \in Strategies |-> << >>]
  /\ cycle_log' = [t \in Strategies |-> << >>]
  /\ main_log' = << >>
  /\ close_orders' = {}
  /\ UNCHANGED << cfg, positions, daily_pnl, total_pnl, trades_today, accepted,
                  total_portfolio_pnl, daily_portfolio_pnl, last_activity_count, cycles,
                  call, risk_manager >>


(***************************************************************************)
(* The cycle tasks.  The task at the head of the ready queue runs.         *)
(***************************************************************************)
Running(t, step) ==
  /\ main_pc = "gather"
  /\ queue # << >>
  /\ Head(queue) = t
  /\ pc[t] = step

\* the task moves to `next`; a task that ends leaves the queue
Goto(t, next) ==
  /\ pc' = [pc EXCEPT ![t] = next]
  /\ queue' = IF next \in Ended THEN Tail(queue) ELSE queue

\* await asyncio.sleep(execution_delay): the task goes to the back of the queue
Yield(t) ==
  /\ pc' = pc
  /\ queue' = Append(Tail(queue), t)

Logged(t, e) == cycle_log' = [cycle_log EXCEPT ![t] = Append1(@, e)]

main_state == << cfg, clock, main_pc, scalping_allowed, main_log, cycles, call,
                risk_manager >>

\* monitor_positions and the bookkeeping that follows it in each cycle.
\* traded: the held symbols whose entry order the broker lists as executed; a
\* lookup that raises leaves the symbol in the dict, as an order that is not
\* listed does.
MonitorPositions(t) ==
  /\ Running(t, "monitor_positions")
  /\ \E broker_positions \in SUBSET (DOMAIN positions[t]),
        traded \in SUBSET (DOMAIN positions[t]), failed \in BOOLEAN :
       LET current_orders == [id \in { positions[t][s].order_id : s \in traded } |-> "TRADED"]
           pnl_summary == monitor_positions(positions[t], broker_positions,
                                            current_orders, {}, failed)
       IN  /\ positions' = [positions EXCEPT ![t] = pnl_summary.positions]
           /\ daily_pnl' = [daily_pnl EXCEPT ![t] = @ + pnl_summary.realized_pnl]
           /\ total_pnl' = [total_pnl EXCEPT ![t] = @ + pnl_summary.realized_pnl]
           /\ trades_today' = IF t = "scalping"
                              THEN trades_today + Len(pnl_summary.closed_positions)
                              ELSE trades_today
  /\ Logged(t, "monitor_positions")
  /\ Goto(t, StepAfter(t, "monitor_positions"))
  /\ UNCHANGED main_state
  /\ UNCHANGED coordination_state
  /\ UNCHANGED close_orders
  /\ UNCHANGED << pending, position_entry_times, recent_signals, accepted,
                  last_open_age >>

\* Faulty variant of TopSignals: the slice is missing.
\* C5_PerStrategyCap fails on it.
TopSignals_unsliced(signals, available_slots) == signals

\* signals[:available_slots]
TopSignals(signals, available_slots) ==
  SubSeq(signals, 1, IF available_slots <= Len(signals) THEN available_slots ELSE Len(signals))

\* the head of _generate_and_execute_signals / _generate_and_execute_breakout_signals,
\* behind the window test of the cycle
position_limit(t) ==
  IF t = "gap_up" THEN cfg.max_positions ELSE cfg.max_positions_per_strategy

signal_window(t) ==
  IF t = "gap_up" THEN is_signal_generation_time(clock) ELSE is_breakout_time(clock)

GenerateSignals(t) ==
  /\ t \in {"gap_up", "breakout"}
  /\ Running(t, "generate_and_execute")
  /\ LET available_slots == position_limit(t) - Count(positions[t])
     IN  IF ~signal_window(t) \/ available_slots <= 0
         THEN /\ Goto(t, StepAfter(t, "generate_and_execute"))
              /\ UNCHANGED << pending, cycle_log >>
         ELSE /\ \E index_gap_up \in BOOLEAN, emitted \in Emissions(t) :
                   LET signals == IF t = "gap_up"
                                  THEN generate_signals(index_gap_up, emitted)
                                  ELSE generate_breakout_signals(emitted)
                   IN  pending' = [pending EXCEPT ![t] = TopSignals(signals, available_slots)]
              /\ Logged(t, "generate_signals")
              /\ Goto(t, "execute")
  /\ UNCHANGED main_state
  /\ UNCHANGED coordination_state
  /\ UNCHANGED close_orders
  /\ UNCHANGED << positions, position_entry_times, recent_signals, daily_pnl, total_pnl,
                  trades_today, accepted, last_open_age >>

\* Position(...) as _execute_signal and _execute_breakout_signal build it
NewPosition(t, signal, quantity) ==
  [ symbol      |-> signal.symbol,
    entry_price |-> signal.entry_price,
    quantity    |-> quantity,
    stop_loss   |-> signal.stop_loss,
    sector      |-> signal.sector,
    order_id    |-> << t, signal.symbol >> ]

\* Faulty variant of execute_signal: the position is recorded whatever the
\* broker answered.  C15_RejectionCreatesNoPosition fails on it.
execute_signal_ignores_order_result(pos, signal, position, order_result) ==
  [ positions |-> Put(pos, signal.symbol, position),
    returned  |-> order_result ]

\* the tail of _execute_signal, _execute_breakout_signal and
\* _execute_scalping_signal: `if order_result:` record the position and
\* return True, otherwise return False.  order_result is false when the
\* broker rejects the order or the call raises.
execute_signal(pos, signal, position, order_result) ==
  [ positions |-> IF order_result THEN Put(pos, signal.symbol, position) ELSE pos,
    returned  |-> order_result ]

\* one turn of the execution loop of the gap-short or breakout strategy:
\* _execute_signal / _execute_breakout_signal on the next signal.
\* order_ok: the broker accepts the entry order.
ExecuteSignal(t) ==
  /\ t \in {"gap_up", "breakout"}
  /\ Running(t, "execute")
  /\ pending[t] # << >>
  /\ LET signal   == Head(pending[t])
         quantity == calculate_position_size(signal)
     IN  /\ pending' = [pending EXCEPT ![t] = Tail(@)]
         /\ IF signal.confidence < min_confidence(t) \/ quantity <= 0
            THEN /\ UNCHANGED << positions, accepted, cycle_log, last_open_age >>
                 /\ UNCHANGED << pc, queue >>
            ELSE \E order_ok \in BOOLEAN :
                   LET order_result == order_ok /\ accepted < MaxEntries
                       executed == execute_signal(positions[t], signal,
                                                  NewPosition(t, signal, quantity),
                                                  order_result)
                   IN  /\ Logged(t, "entry_order")
                       /\ positions' = [positions EXCEPT ![t] = executed.positions]
                       /\ accepted' = IF order_result THEN accepted + 1 ELSE accepted
                       /\ IF executed.returned
                          THEN /\ last_open_age' = 0
                               /\ Yield(t)
                          ELSE /\ UNCHANGED last_open_age
                               /\ UNCHANGED << pc, queue >>
  /\ UNCHANGED main_state
  /\ UNCHANGED coordination_state
  /\ UNCHANGED close_orders
  /\ UNCHANGED << position_entry_times, recent_signals, daily_pnl, total_pnl,
                  trades_today >>

\* the execution loop has run out of signals
ExecuteDone(t) ==
  /\ Running(t, "execute")
  /\ pending[t] = << >>
  /\ Goto(t, StepAfter(t, "generate_and_execute"))
  /\ UNCHANGED main_state
  /\ UNCHANGED coordination_state
  /\ UNCHANGED strategy_state

\* _log_status / _log_breakout_status / _log_scalping_status end the cycle
LogStatus(t) ==
  /\ Running(t, "log_status")
  /\ Goto(t, StepAfter(t, "log_status"))
  /\ cycle_log' = [cycle_log EXCEPT ![t] = << >>]
  /\ UNCHANGED main_state
  /\ UNCHANGED coordination_state
  /\ UNCHANGED close_orders
  /\ UNCHANGED << positions, position_entry_times, recent_signals, daily_pnl, total_pnl,
                  trades_today, accepted, last_open_age, pending >>


(***************************************************************************)
(* Level2ScalpingStrategy                                                  *)
(***************************************************************************)
\* _check_position_timing: the symbols held for max_hold_seconds or longer
positions_to_close(pos, entry_times) ==
  { s \in DOMAIN pos : s \in DOMAIN entry_times /\ entry_times[s] >= MaxHoldTicks }

\* _check_position_timing and _close_position for each symbol it selects.
\* close_ok: the symbols whose market close order the broker accepts.
CheckPositionTiming ==
  /\ Running("scalping", "check_position_timing")
  /\ LET to_close == positions_to_close(positions["scalping"], position_entry_times)
     IN  \E close_ok \in SUBSET to_close :
           /\ close_orders' = close_orders \cup to_close
           /\ positions' = [positions EXCEPT !["scalping"] = Remove(@, close_ok)]
           /\ position_entry_times' = Remove(position_entry_times, close_ok)
  /\ Logged("scalping", "check_position_timing")
  /\ Goto("scalping", StepAfter("scalping", "check_position_timing"))
  /\ UNCHANGED main_state
  /\ UNCHANGED coordination_state
  /\ UNCHANGED << pending, recent_signals, daily_pnl, total_pnl, trades_today, accepted,
                  last_open_age >>

\* the window and slot test of run_scalping_cycle, then the head of
\* _generate_and_execute_scalping_signals
GenerateScalpingSignals ==
  /\ Running("scalping", "generate_and_execute")
  /\ IF ~( is_scalping_time(clock)
           /\ Count(positions["scalping"]) < cfg.scalping_max_positions )
     THEN /\ Goto("scalping", StepAfter("scalping", "generate_and_execute"))
          /\ UNCHANGED << pending, cycle_log, recent_signals >>
     ELSE /\ \E emitted \in Emissions("scalping") :
               LET g == generate_scalping_signals(recent_signals, emitted)
               IN  /\ pending' = [pending EXCEPT !["scalping"] = g.signals]
                   /\ recent_signals' = g.recent_signals
          /\ Logged("scalping", "generate_signals")
          /\ Goto("scalping", "execute")
  /\ UNCHANGED main_state
  /\ UNCHANGED coordination_state
  /\ UNCHANGED close_orders
  /\ UNCHANGED << positions, position_entry_times, daily_pnl, total_pnl,
                  trades_today, accepted, last_open_age >>

\* portfolio_value * position_size_percentage / 100 / entry_price, with
\* portfolio_value 2,000,000 ticks and position_size_percentage 0.15
scalping_quantity(signal) ==
  LET position_value == (2000000 * 15) \div 10000
  IN  position_value \div signal.entry_price

\* Position(...) as _execute_scalping_signal builds it
NewScalpingPosition(signal, quantity) ==
  [ symbol      |-> signal.symbol,
    entry_price |-> signal.entry_price,
    quantity    |-> IF signal.signal_type = "LONG_BID_ASK_IMBALANCE"
                    THEN quantity ELSE 0 - quantity,
    stop_loss   |-> signal.stop_loss,
    sector      |-> signal.sector,
    order_id    |-> << "scalping", signal.symbol >> ]

\* one turn of the loop of _generate_and_execute_scalping_signals:
\* _execute_scalping_signal on the next signal, and the break after a success
ExecuteScalpingSignal ==
  /\ Running("scalping", "execute")
  /\ pending["scalping"] # << >>
  /\ LET signal   == Head(pending["scalping"])
         quantity == scalping_quantity(signal)
     IN  IF signal.confidence < min_confidence("scalping") \/ quantity <= 0
         THEN /\ pending' = [pending EXCEPT !["scalping"] = Tail(@)]
              /\ UNCHANGED << positions, position_entry_times, accepted,
                              cycle_log, pc, queue >>
         ELSE \E order_ok \in BOOLEAN :
                LET order_result == order_ok /\ accepted < MaxEntries
                    executed == execute_signal(positions["scalping"], signal,
                                               NewScalpingPosition(signal, quantity),
                                               order_result)
                IN  /\ Logged("scalping", "entry_order")
                    /\ positions' = [positions EXCEPT !["scalping"] = executed.positions]
                    /\ position_entry_times' =
                         IF order_result THEN Put(position_entry_times, signal.symbol, 0)
                         ELSE position_entry_times
                    /\ accepted' = IF order_result THEN accepted + 1 ELSE accepted
                    /\ IF executed.returned
                       THEN /\ pending' = [pending EXCEPT !["scalping"] = << >>]
                            /\ Goto("scalping", StepAfter("scalping", "generate_and_execute"))
                       ELSE /\ pending' = [pending EXCEPT !["scalping"] = Tail(@)]
                            /\ UNCHANGED << pc, queue >>
  /\ UNCHANGED main_state
  /\ UNCHANGED coordination_state
  /\ UNCHANGED close_orders
  /\ UNCHANGED << recent_signals, daily_pnl, total_pnl, trades_today,
                  last_open_age >>

(***************************************************************************)
(* A step of a cycle raises: the nearest except logs it                    *)
(***************************************************************************)
CycleRaises(t) ==
  /\ \E step \in {"check_position_timing", "generate_and_execute", "execute", "log_status"} :
       /\ Running(t, step)
       /\ on_exception(t, step) = "failed"
            => Cardinality({u \in Strategies : pc[u] = "failed"}) < MaxFailures
       /\ Goto(t, on_exception(t, step))
       /\ cycle_log' = IF on_exception(t, step) \in Ended
                       THEN [cycle_log EXCEPT ![t] = << >>] ELSE cycle_log
  /\ pending' = [pending EXCEPT ![t] = << >>]
  /\ UNCHANGED main_state
  /\ UNCHANGED coordination_state
  /\ UNCHANGED close_orders
  /\ UNCHANGED << positions, position_entry_times, recent_signals, daily_pnl, total_pnl,
                  trades_today, accepted, last_open_age >>

(***************************************************************************)
(* Specification                                                           *)
(***************************************************************************)
Next ==
  \/ OutsideTradingHours
  \/ CycleStart
  \/ CycleFinish
  \/ Sleep
  \/ \E t \in Strategies : MonitorPositions(t)
  \/ \E t \in Strategies : GenerateSignals(t)
  \/ \E t \in Strategies : ExecuteSignal(t)
  \/ \E t \in Strategies : ExecuteDone(t)
  \/ \E t \in Strategies : LogStatus(t)
  \/ CheckPositionTiming
  \/ GenerateScalpingSignals
  \/ ExecuteScalpingSignal
  \/ \E t \in Strategies : CycleRaises(t)

Spec == Init /\ [][Next]_vars


(***************************************************************************)
(* Properties                                                              *)
(***************************************************************************)
\* the number of open positions of all strategies
TotalPositions ==
  Count(positions["gap_up"]) + Count(positions["breakout"]) + Count(positions["scalping"])

\* the number of open positions in a sector, all strategies together
SectorCount(sector) ==
  Cardinality({ ts \in Strategies \X Symbols :
                  /\ ts[2] \in DOMAIN positions[ts[1]]
                  /\ positions[ts[1]][ts[2]].sector = sector })

\* a scheduler cycle inside trading hours has run and the loop is about to sleep
CycleOver == main_pc = "sleep" /\ main_log # << >>

\* the gate has just been evaluated and no cycle task has run yet
GateJustEvaluated ==
  /\ main_pc = "gather"
  /\ queue = StrategyTasks(scalping_allowed)
  /\ \A t \in Strategies : pc[t] \in {"idle", FirstStep(t)}

\* the scalping positions that have been held for max_hold_seconds or longer
Overdue ==
  { s \in DOMAIN positions["scalping"] :
      s \in DOMAIN position_entry_times /\ position_entry_times[s] >= MaxHoldTicks }

\* C1: time-boxed exit.  When a scheduler cycle run during trading hours is
\* over and the scalping coroutine did not raise, a market close order has
\* been placed in that cycle for every scalping position that is still open
\* and has been held for max_hold_seconds or longer, whether or not the gate
\* allowed scalping in that cycle.
C1_TimedExitEveryCycle ==
  (CycleOver /\ pc["scalping"] # "failed") => Overdue \subseteq close_orders

\* C2: no sector has more than 2 open positions, the three position maps
\* taken together.
C2_SectorLimit ==
  \A sector \in Sectors : SectorCount(sector) <= 2

\* C3: no symbol is a key of more than one strategy's position map.
C3_SymbolExclusive ==
  \A t \in Strategies, u \in Strategies :
    t # u => (DOMAIN positions[t]) \cap (DOMAIN positions[u]) = {}

\* C4: the total number of open positions never exceeds max_total_positions.
C4_GlobalCap ==
  TotalPositions <= cfg.max_total_positions

C6_NoScalpingAfterTrade ==
  ( /\ GateJustEvaluated
    /\ ~cfg.allow_scalping_during_signals
    /\ last_open_age # None
    /\ last_open_age < CrossCooldownTicks )
  => ~scalping_allowed

\* the decision table of the gate, row by row
GateTable ==
  LET recent_trade == /\ last_non_scalping_trade_time # None
                      /\ last_non_scalping_trade_time < CrossCooldownTicks
      open_slots   == \/ Count(positions["gap_up"]) < cfg.max_gap_up_positions
                      \/ Count(positions["breakout"]) < cfg.max_breakout_positions
  IN  CASE cfg.allow_scalping_during_signals -> TRUE
        [] ~cfg.allow_scalping_during_signals /\ recent_trade -> FALSE
        [] ~cfg.allow_scalping_during_signals /\ ~recent_trade
             /\ is_signal_generation_time(clock) /\ open_slots -> FALSE
        [] OTHER -> TRUE

\* C7: the step that evaluates the gate leaves scalping_allowed as the
\* decision table says and changes nothing else of the program's state.
C7_GateDecisionTable ==
  [][ (main_pc = "loop" /\ main_pc' = "gather")
      => /\ scalping_allowed' = GateTable
         /\ UNCHANGED << cfg, clock, positions, position_entry_times, recent_signals,
                         daily_pnl, total_pnl, trades_today, total_portfolio_pnl,
                         daily_portfolio_pnl, last_non_scalping_trade_time,
                         last_activity_count >> ]_vars

\* C7 witness: the gate refused scalping on the cool-down row alone
C7_Witness ==
  /\ GateJustEvaluated
  /\ ~scalping_allowed
  /\ ~is_signal_generation_time(clock)
  /\ last_non_scalping_trade_time # None
  /\ last_non_scalping_trade_time < CrossCooldownTicks

\* the cycle tasks handed to gather in the current cycle
Dispatched == { t \in Strategies : InSeq(t, StrategyTasks(scalping_allowed)) }

\* C8: once a cycle task has failed, the scheduler does not leave the gather
\* before every other task handed to it has run to its end, and then the
\* portfolio P&L aggregation and the coordination update have run and the
\* loop is at its sleep before the next cycle.
C8_FailureIsolation ==
  (main_log # << >> /\ main_pc # "gather" /\ \E t \in Dispatched : pc[t] = "failed")
  => /\ \A t \in Dispatched : pc[t] \in {"done", "failed"}
     /\ InSeq("update_portfolio_performance", main_log)
     /\ InSeq("update_strategy_coordination", main_log)
     /\ main_pc = "sleep"

\* C8 witness: the gap-short task failed, the breakout and scalping tasks
\* completed and the cycle is over
C8_Witness ==
  /\ CycleOver
  /\ pc["gap_up"] = "failed"
  /\ pc["breakout"] = "done"
  /\ pc["scalping"] = "done"

\* C9: in the cycle of every strategy, monitor_positions has completed before
\* the strategy generates signals or places an entry order.
C9_MonitorBeforeSignals ==
  \A t \in Strategies :
    /\ Before(cycle_log[t], "monitor_positions", "generate_signals")
    /\ Before(cycle_log[t], "monitor_positions", "entry_order")

\* C9 witness: a breakout cycle that monitored, generated signals and placed
\* an entry order
C9_Witness ==
  cycle_log["breakout"] = << "monitor_positions", "generate_signals", "entry_order" >>

\* monitor_positions has been called for strategy t in the current cycle
Monitored(t) ==
  \/ InSeq("monitor_positions", cycle_log[t])
  \/ pc[t] \in {"log_status", "done"}

\* C10: when the gate has been evaluated in a cycle, monitor_positions has
\* already been called for every strategy in that cycle.
C10_GateAfterMonitoring ==
  InSeq("should_allow_scalping", main_log) => \A t \in Strategies : Monitored(t)

\* C11: consistent snapshot.  When a strategy has placed an entry order in
\* the current scheduler cycle, monitor_positions has already completed in
\* that cycle for every strategy handed to the gather.
C11_MonitorAllBeforeEntry ==
  \A t \in Strategies :
    InSeq("entry_order", cycle_log[t]) => \A u \in Dispatched : Monitored(u)


(***************************************************************************)
(* run() under an external interrupt                                       *)
(***************************************************************************)
\* KeyboardInterrupt reaches EnhancedMultiStrategyWithScalping.run: its
\* except clause logs that the system was stopped and run returns; the
\* cycle tasks never run again.  run has no finally clause.
KeyboardInterrupt ==
  /\ main_pc # "returned"
  /\ main_pc' = "returned"
  /\ main_log' = Append(main_log, "stopped_by_user")
  /\ UNCHANGED << cfg, clock, scalping_allowed, queue, pc, cycles, call, risk_manager >>
  /\ UNCHANGED strategy_state
  /\ UNCHANGED coordination_state

\* a run started before the market opens, with scalping allowed at all times
InitRun ==
  /\ Init
  /\ clock = "closed"
  /\ cfg.max_positions = 1
  /\ cfg.allow_scalping_during_signals

NextRun ==
  \/ Next
  \/ KeyboardInterrupt

SpecRun == InitRun /\ [][NextRun]_vars

\* C12: when run has returned after an external interrupt, it has emitted a
\* final performance summary.
C12_FinalSummaryOnInterrupt ==
  main_pc = "returned" => InSeq("final_performance_summary", main_log)


(***************************************************************************)
(* PositionManagementService.monitor_positions called on its own: the      *)
(* positions dict of one strategy against every answer of the broker       *)
(***************************************************************************)
\* the signal a strategy acts on for a symbol of its universe
SignalFor(t, sym) == MakeSignal(t, sym, [confidence |-> 90, side |-> "LONG"])

\* the Position a strategy holds for a symbol of its universe
PositionFor(t, sym) ==
  IF t = "scalping"
  THEN NewScalpingPosition(SignalFor(t, sym), scalping_quantity(SignalFor(t, sym)))
  ELSE NewPosition(t, SignalFor(t, sym), calculate_position_size(SignalFor(t, sym)))

\* the ids the broker's order book may list: the entry orders of the
\* strategy's symbols and an order of another strategy
OrderIds(t) ==
  { << t, s >> : s \in DOMAIN Universe(t) } \cup { << "other", "TCS.NS" >> }

OrderBooks(t) ==
  UNION { [ids -> OrderStatus] : ids \in SUBSET OrderIds(t) }

MonitorInputs ==
  UNION { [ positions        : { [s \in held |-> PositionFor(t, s)] :
                                   held \in SUBSET (DOMAIN Universe(t)) },
            broker_positions : SUBSET (DOMAIN Universe(t)),
            current_orders   : OrderBooks(t),
            raised           : SUBSET (DOMAIN Universe(t)),
            failed           : BOOLEAN ] : t \in {"gap_up", "scalping"} }

InitMonitor ==
  /\ Constructed
  /\ risk_manager = NoRiskManager
  /\ cfg.max_positions = 1
  /\ cfg.allow_scalping_during_signals
  /\ clock = "closed"
  /\ call \in [ op : {"input"}, args : MonitorInputs, result : {NoCall} ]

rest_of_state ==
  << cfg, clock, main_pc, scalping_allowed, queue, pc, pending, positions,
     position_entry_times, recent_signals, daily_pnl, total_pnl, trades_today,
     total_portfolio_pnl, daily_portfolio_pnl, last_non_scalping_trade_time,
     last_activity_count, accepted, cycle_log, main_log, last_open_age,
     close_orders, cycles, risk_manager >>

\* monitor_positions(positions)
MonitorCall ==
  /\ call.op = "input"
  /\ call' = [ op     |-> "monitor_positions",
               args   |-> call.args,
               result |-> monitor_positions(call.args.positions, call.args.broker_positions,
                                            call.args.current_orders, call.args.raised,
                                            call.args.failed) ]
  /\ UNCHANGED rest_of_state

\* monitor_positions(positions) once more on the dict the first call left,
\* the broker answering as before
MonitorCallAgain ==
  /\ call.op = "monitor_positions"
  /\ LET args == [call.args EXCEPT !.positions = call.result.positions]
     IN  call' = [ op     |-> "monitor_positions_again",
                   first  |-> call.result,
                   args   |-> args,
                   result |-> monitor_positions(args.positions, args.broker_positions,
                                                args.current_orders, args.raised,
                                                args.failed) ]
  /\ UNCHANGED rest_of_state

NextMonitor ==
  \/ MonitorCall
  \/ MonitorCallAgain

SpecMonitor == InitMonitor /\ [][NextMonitor]_vars

\* the symbols a call of monitor_positions deleted from the dict
Removed == (DOMAIN call.args.positions) \ (DOMAIN call.result.positions)

\* the closed-position records a call appended for symbol s
RecordsOf(s) ==
  { i \in 1..Len(call.result.closed_positions) : call.result.closed_positions[i].symbol = s }

\* C13: monitor_positions deletes a symbol only when the broker reports no
\* open position for it and the order with the position's order_id has
\* status TRADED or COMPLETE; a symbol absent at the broker without such an
\* order, or whose lookup raised, stays; every deletion appends exactly one
\* closed-position record and adds that position's realised P&L to
\* realized_pnl; the positions that stay are not modified.
C13_MonitorRemoval ==
  call.op \in {"monitor_positions", "monitor_positions_again"} =>
    LET a == call.args
        r == call.result
    IN  /\ \A s \in Removed :
             /\ s \notin a.broker_positions
             /\ a.positions[s].order_id \in DOMAIN a.current_orders
             /\ a.current_orders[a.positions[s].order_id] \in {"TRADED", "COMPLETE"}
             /\ Cardinality(RecordsOf(s)) = 1
             /\ \A i \in RecordsOf(s) :
                  r.closed_positions[i].pnl
                    = (a.positions[s].entry_price - a.positions[s].stop_loss)
                        * a.positions[s].quantity
        /\ \A s \in DOMAIN a.positions :
             ( \/ a.failed
               \/ s \in a.raised
               \/ a.positions[s].order_id \notin DOMAIN a.current_orders
               \/ a.current_orders[a.positions[s].order_id] = "PENDING" )
             => s \in DOMAIN r.positions
        /\ \A s \in DOMAIN r.positions :
             s \in DOMAIN a.positions /\ r.positions[s] = a.positions[s]
        /\ Len(r.closed_positions) = Cardinality(Removed)
        /\ r.realized_pnl
             = SumOver([s \in Removed |->
                          (a.positions[s].entry_price - a.positions[s].stop_loss)
                            * a.positions[s].quantity], Removed)

\* C13 witness: of two held symbols absent at the broker, the one whose order
\* is COMPLETE was deleted and the one whose order is PENDING stays
C13_Witness ==
  /\ call.op = "monitor_positions"
  /\ Removed = {"TCS.NS"}
  /\ "WIPRO.NS" \in DOMAIN call.result.positions
  /\ call.args.broker_positions = {}
  /\ call.args.raised = {}
  /\ DOMAIN call.args.current_orders = { << "gap_up", "TCS.NS" >>, << "gap_up", "WIPRO.NS" >> }
  /\ call.args.current_orders[<< "gap_up", "TCS.NS" >>] = "COMPLETE"
  /\ call.args.current_orders[<< "gap_up", "WIPRO.NS" >>] = "PENDING"
  /\ Len(call.result.closed_positions) = 1


\* C14: monitor_positions is idempotent.  A second call on the dict the first
\* call left, with the broker answering as before, returns realized_pnl 0 and
\* no closed-position record and leaves the dict as it was.
C14_MonitorIdempotent ==
  call.op = "monitor_positions_again" =>
    /\ call.result.realized_pnl = 0
    /\ call.result.closed_positions = << >>
    /\ call.result.positions = call.args.positions

\* C14 witness: the first call closed TCS.NS and kept WIPRO.NS, which the
\* broker still reports; the second call has run
C14_Witness ==
  /\ call.op = "monitor_positions_again"
  /\ Len(call.first.closed_positions) = 1
  /\ call.first.closed_positions[1].symbol = "TCS.NS"
  /\ call.first.realized_pnl # 0
  /\ DOMAIN call.args.positions = {"WIPRO.NS"}
  /\ call.args.broker_positions = {"WIPRO.NS"}


\* C15: a rejected entry order creates no position.  In a turn of the
\* execution loop of any of the three strategies in which the broker accepts
\* no order (it rejects the order, the call raises, or no order is sent), the
\* position maps and position_entry_times are left as they were and the
\* strategy takes the path of a False return: the loop goes on to the next
\* signal without the pause or the break that follow a success.
C15_RejectionCreatesNoPosition ==
  [][ \A t \in Strategies :
        ( /\ Running(t, "execute")
          /\ pending[t] # << >>
          /\ pending'[t] = Tail(pending[t])
          /\ pc'[t] = "execute"
          /\ accepted' = accepted )
        => /\ positions' = positions
           /\ position_entry_times' = position_entry_times
           /\ queue' = queue ]_vars

\* C15 witness: the breakout strategy has placed an entry order in this
\* cycle, the broker has never accepted an order, and no position exists
C15_Witness ==
  /\ InSeq("entry_order", cycle_log["breakout"])
  /\ pc["breakout"] = "execute"
  /\ accepted = 0
  /\ \A t \in Strategies : positions[t] = EmptyDict
  /\ position_entry_times = EmptyDict


(***************************************************************************)
(* The execution of one signal by each strategy, for signals whose stop    *)
(* lies at any distance from the entry price (StrategyConfig.stop_loss_pct *)
(* and ScalpingConfig.stop_loss_ticks are read from the environment and    *)
(* may be 0)                                                               *)
(***************************************************************************)
\* stop_loss - entry_price of the signals executed, in ticks
StopDistances == {0 - 30, 0 - 3, 0, 3, 30}

SignalInputs(t) ==
  { [sig EXCEPT !.stop_loss = sig.entry_price + d] :
      sig \in { MakeSignal(t, sym, e) :
                  sym \in DOMAIN Universe(t),
                  e \in [confidence : Confidences,
                         side : IF t = "scalping" THEN {"LONG", "SHORT"} ELSE {"LONG"}] },
      d \in StopDistances }

\* the cycle tasks that have not ended when task t first reaches its
\* execution loop, and the step each task is at
QueueAt(t) ==
  IF t = "gap_up" THEN << "gap_up", "breakout", "scalping" >>
  ELSE IF t = "breakout" THEN << "breakout", "scalping" >>
  ELSE << "scalping" >>

\* the first scheduler cycle, inside the signal window: task t has monitored
\* and generated `signal` and is about to execute it
InitExecute ==
  \E t \in Strategies :
    \E signal \in SignalInputs(t) :
      /\ NothingTraded
      /\ cfg \in Configs
      /\ cfg.allow_scalping_during_signals
      /\ clock = "signal_window"
      /\ main_pc = "gather"
      /\ main_log = << "should_allow_scalping", "gather" >>
      /\ cycles = 1
      /\ scalping_allowed = TRUE
      /\ queue = QueueAt(t)
      /\ pc = [u \in Strategies |->
                 IF u = t THEN "execute"
                 ELSE IF InSeq(u, QueueAt(t)) THEN FirstStep(u) ELSE "done"]
      /\ pending = [u \in Strategies |-> IF u = t THEN << signal >> ELSE << >>]
      /\ cycle_log = [u \in Strategies |->
                        IF u # t THEN << >>
                        ELSE IF t = "scalping"
                        THEN << "check_position_timing", "monitor_positions", "generate_signals" >>
                        ELSE << "monitor_positions", "generate_signals" >>]
      /\ call = [ op |-> "execute_signal", args |-> [ strategy |-> t, signal |-> signal ] ]
      /\ risk_manager = NoRiskManager

NextExecute ==
  \/ \E t \in Strategies : ExecuteSignal(t)
  \/ ExecuteScalpingSignal
  \/ \E t \in Strategies : ExecuteDone(t)

SpecExecute == InitExecute /\ [][NextExecute]_vars

\* C16: zero-risk signals.  For a signal with stop_loss = entry_price the
\* position sizing of the position service returns 0, and the strategy that
\* executes the signal sends no order to the broker and creates no position.
C16_ZeroRiskNoOp ==
  ( /\ call.op = "execute_signal"
    /\ call.args.signal.stop_loss = call.args.signal.entry_price )
  => /\ calculate_position_size(call.args.signal) = 0
     /\ ~InSeq("entry_order", cycle_log[call.args.strategy])
     /\ positions[call.args.strategy] = EmptyDict


\* |x|
Abs(x) == IF x >= 0 THEN x ELSE 0 - x

\* C17: sizing formula.  Every position held by any of the three strategies
\* has |quantity| = floor(portfolio_value * risk_per_trade_pct / 100
\* / |stop_loss - entry_price|), with portfolio_value 2,000,000 ticks and
\* risk_per_trade_pct 1, and that quantity is positive.
C17_SizingFormula ==
  \A t \in Strategies :
    \A s \in DOMAIN positions[t] :
      LET p == positions[t][s]
      IN  /\ p.stop_loss # p.entry_price
          /\ Abs(p.quantity) = ((2000000 * 1) \div 100) \div Abs(p.stop_loss - p.entry_price)
          /\ Abs(p.quantity) > 0


(***************************************************************************)
(* Level2ScalpingSignalService.generate_scalping_signals called again and  *)
(* again on one generator instance while time passes                       *)
(***************************************************************************)
\* the time since a signal was last returned for a symbol is followed up to here
SinceCap == SignalCooldownTicks + 1

\* call.args: the market data of the latest call, as the signals it makes
\* the analysis emit; call.since: for each symbol of the scalping universe, None or the ticks
\* elapsed since generate_scalping_signals last returned a signal for it;
\* call.previous: call.since as it was when the latest call was made
InitCooldown ==
  /\ Constructed
  /\ risk_manager = NoRiskManager
  /\ is_scalping_time(clock)
  /\ call = [ op       |-> "none",
              args     |-> EmptyDict,
              result   |-> << >>,
              since    |-> [s \in DOMAIN scalping_universe |-> None],
              previous |-> [s \in DOMAIN scalping_universe |-> None] ]

\* the symbols of a list of signals
SymbolsOf(signals) == { signals[i].symbol : i \in 1..Len(signals) }

\* generate_scalping_signals(config) on whatever the market data gives
GenerateCall ==
  /\ \E emitted \in Emissions("scalping") :
       LET g == generate_scalping_signals(recent_signals, emitted)
       IN  /\ recent_signals' = g.recent_signals
           /\ call' = [ op       |-> "generate_scalping_signals",
                        args     |-> emitted,
                        result   |-> g.signals,
                        since    |-> [s \in DOMAIN scalping_universe |->
                                        IF s \in SymbolsOf(g.signals) THEN 0 ELSE call.since[s]],
                        previous |-> call.since ]
  /\ UNCHANGED << cfg, clock, main_pc, scalping_allowed, queue, pc, pending, positions,
                  position_entry_times, daily_pnl, total_pnl, trades_today,
                  total_portfolio_pnl, daily_portfolio_pnl, last_non_scalping_trade_time,
                  last_activity_count, accepted, cycle_log, main_log, last_open_age,
                  close_orders, cycles, risk_manager >>

\* time passes between two calls
Tick ==
  /\ \E d \in 1..MaxStep :
       /\ recent_signals' = AgeAll(recent_signals, d)
       /\ call' = [ call EXCEPT !.op = "tick",
                                !.args = EmptyDict,
                                !.result = << >>,
                                !.since = [s \in DOMAIN scalping_universe |->
                                             IF call.since[s] = None THEN None
                                             ELSE IF call.since[s] + d >= SinceCap THEN SinceCap
                                             ELSE call.since[s] + d] ]
  /\ UNCHANGED << cfg, clock, main_pc, scalping_allowed, queue, pc, pending, positions,
                  position_entry_times, daily_pnl, total_pnl, trades_today,
                  total_portfolio_pnl, daily_portfolio_pnl, last_non_scalping_trade_time,
                  last_activity_count, accepted, cycle_log, main_log, last_open_age,
                  close_orders, cycles, risk_manager >>

NextCooldown ==
  \/ GenerateCall
  \/ Tick

SpecCooldown == InitCooldown /\ [][NextCooldown]_vars

\* C18: scalping cool-down.  When generate_scalping_signals returns a signal
\* for a symbol, either it has never returned one for that symbol before or
\* at least cooldown_seconds have passed since it last did.
C18_ScalpingCooldown ==
  call.op = "generate_scalping_signals" =>
    \A s \in SymbolsOf(call.result) :
      call.previous[s] = None \/ call.previous[s] >= SignalCooldownTicks

\* C18 witness: a call made less than cooldown_seconds after a signal for
\* TCS.NS was returned has returned no signal for it
C18_Witness ==
  /\ call.op = "generate_scalping_signals"
  /\ call.previous["TCS.NS"] # None
  /\ call.previous["TCS.NS"] > 0
  /\ call.previous["TCS.NS"] < SignalCooldownTicks
  /\ call.result = << >>


(***************************************************************************)
(* The confidence the three signal services compute.  Confidences are in   *)
(* units of 0.0001 here (1.0 is ConfidenceOne), scores in percent, ratios  *)
(* and percentages of price in tenths.                                     *)
(***************************************************************************)
ConfidenceOne == 100 * 100

Min2(a, b) == IF a <= b THEN a ELSE b

\* SignalGenerationService.sector_weights, in tenths, for the sectors of the
\* model's universe
sector_weights == [s \in Sectors |-> IF s = "IT" THEN 9 ELSE 6]

\* OpenBreakoutSignalService.sector_weights, in tenths
breakout_sector_weights == [s \in Sectors |-> IF s = "IT" THEN 10 ELSE 9]

\* min(volume_ratio / 3, 1), volume_ratio in tenths
volume_term(volume_ratio) == Min2((volume_ratio * 1000) \div 3, ConfidenceOne)

\* SignalGenerationService.generate_signals: the confidence of a signal
gap_up_confidence(selling_pressure, volume_ratio, gap_percentage, sector) ==
  selling_pressure * 40                      \* (selling_pressure / 100) * 0.4
  + (volume_term(volume_ratio) * 3) \div 10  \* min(volume_ratio / 3, 1) * 0.3
  + gap_percentage * 40                      \* (gap_percentage / 5) * 0.2
  + sector_weights[sector] * 100             \* sector_preference * 0.1

\* OpenBreakoutSignalService.generate_breakout_signals: the confidence of a signal
breakout_confidence(breakout_strength, volume_ratio, breakout_percentage, momentum_score, sector) ==
  breakout_strength * 30                      \* (breakout_strength / 100) * 0.3
  + (volume_term(volume_ratio) * 25) \div 100 \* min(volume_ratio / 3, 1) * 0.25
  + breakout_percentage * 20                  \* (breakout_percentage / 10) * 0.2
  + momentum_score * 15                       \* (momentum_score / 100) * 0.15
  + breakout_sector_weights[sector] * 100     \* sector_preference * 0.1

\* Level2ScalpingSignalService._calculate_scalping_confidence, with
\* min_bid_ask_imbalance_ratio 2.5 and min_volume_at_level 2000.
\* depth: len(bids) + len(asks); imbalance_ratio in tenths, positive;
\* total_volume: the volume at the best bid and ask; near_level: a support
\* or resistance level lies within 0.2% of the price
calculate_scalping_confidence(depth, imbalance_ratio, total_volume, near_level) ==
  LET depth_score     == Min2(depth, 10) * 250
      imbalance_score == IF imbalance_ratio >= 25
                         THEN (Min2((imbalance_ratio * 1000) \div 5, ConfidenceOne) * 35) \div 100
                         ELSE IF imbalance_ratio <= 4
                         THEN (Min2(20000 \div imbalance_ratio, ConfidenceOne) * 35) \div 100
                         ELSE 1000
      volume_score    == (Min2((total_volume * ConfidenceOne) \div (2000 * 2), ConfidenceOne) * 25)
                           \div 100
      proximity_score == IF near_level THEN 1500 ELSE 0
  IN  Min2(depth_score + imbalance_score + volume_score + proximity_score, ConfidenceOne)

\* signal_confidence with the gap-short generator testing no selling pressure
signal_confidence_without_pressure_gate(m) ==
  IF m.generator = "gap_up"
  THEN IF m.gap_percentage < 5 \/ m.volume_ratio < 12
       THEN None
       ELSE gap_up_confidence(m.selling_pressure, m.volume_ratio, m.gap_percentage, m.sector)
  ELSE None

\* the confidence of the signal a generator returns for one symbol, None
\* when its criteria let no signal through: min_gap_percentage 0.5,
\* min_selling_pressure 40, min_volume_ratio 1.2, min_breakout_percentage
\* 2.0, min_confidence 0.6 (breakout) and 0.80 (scalping)
signal_confidence(m) ==
  IF m.generator = "gap_up"
  THEN IF m.gap_percentage < 5 \/ m.selling_pressure < 40 \/ m.volume_ratio < 12
       THEN None
       ELSE gap_up_confidence(m.selling_pressure, m.volume_ratio, m.gap_percentage, m.sector)
  ELSE IF m.generator = "breakout"
  THEN LET confidence == breakout_confidence(m.breakout_strength, m.volume_ratio,
                                             m.breakout_percentage, m.momentum_score,
                                             m.sector)
       IN  IF m.breakout_percentage < 20 \/ confidence < 6000 THEN None ELSE confidence
  ELSE LET confidence == calculate_scalping_confidence(m.depth, m.imbalance_ratio,
                                                       m.total_volume, m.near_level)
       IN  IF confidence < 8000 THEN None ELSE confidence

\* the market data the analysis of one symbol works on
MarketInputs ==
  [ generator : {"gap_up"}, selling_pressure : {30, 40, 100}, volume_ratio : {12, 30, 60},
    gap_percentage : {5, 50, 100}, sector : Sectors ]
  \cup
  [ generator : {"breakout"}, breakout_strength : {0, 50, 100}, volume_ratio : {15, 30, 60},
    breakout_percentage : {20, 100, 200}, momentum_score : {0, 50, 100}, sector : Sectors ]
  \cup
  [ generator : {"scalping"}, depth : {2, 10, 20}, imbalance_ratio : {1, 4, 10, 25, 100},
    total_volume : {0, 2000, 8000}, near_level : BOOLEAN ]

InitConfidence ==
  /\ Constructed
  /\ risk_manager = NoRiskManager
  /\ cfg.max_positions = 1
  /\ cfg.allow_scalping_during_signals
  /\ clock = "signal_window"
  /\ call \in [ op : {"input"}, args : MarketInputs, result : {None} ]

\* the analysis of one symbol inside a generator
ConfidenceCall ==
  /\ call.op = "input"
  /\ call' = [ op |-> "signal_confidence", args |-> call.args,
               result |-> signal_confidence(call.args) ]
  /\ UNCHANGED rest_of_state

NextConfidence == ConfidenceCall

SpecConfidence == InitConfidence /\ [][NextConfidence]_vars

\* C19: every signal a generator returns has a confidence in [0, 1].
C19_ConfidenceInUnitInterval ==
  (call.op = "signal_confidence" /\ call.result # None)
  => (0 <= call.result /\ call.result <= ConfidenceOne)


(***************************************************************************)
(* The three generators called on their own, for the order of the list     *)
(* they return                                                             *)
(***************************************************************************)
\* the arguments of a generator: the market data as the signals it makes the
\* analysis emit, and for the scalping generator its recent_signals
GeneratorInputs ==
  [ generator : {"gap_up"}, index_gap_up : BOOLEAN, emitted : Emissions("gap_up"),
    recent_signals : {EmptyDict} ]
  \cup
  [ generator : {"breakout"}, index_gap_up : {FALSE}, emitted : Emissions("breakout"),
    recent_signals : {EmptyDict} ]
  \cup
  [ generator : {"scalping"}, index_gap_up : {FALSE}, emitted : Emissions("scalping"),
    recent_signals : {EmptyDict} \cup [DOMAIN scalping_universe -> 0..AgeCap] ]

InitSort ==
  /\ Constructed
  /\ risk_manager = NoRiskManager
  /\ call \in [ op : {"input"}, args : GeneratorInputs, result : {<< >>} ]

\* generate_signals / generate_breakout_signals / generate_scalping_signals
GeneratorCall ==
  /\ call.op = "input"
  /\ call' = [ op     |-> "generate",
               args   |-> call.args,
               result |-> IF call.args.generator = "gap_up"
                          THEN generate_signals(call.args.index_gap_up, call.args.emitted)
                          ELSE IF call.args.generator = "breakout"
                          THEN generate_breakout_signals(call.args.emitted)
                          ELSE generate_scalping_signals(call.args.recent_signals,
                                                         call.args.emitted).signals ]
  /\ UNCHANGED rest_of_state

NextSort == GeneratorCall

SpecSort == InitSort /\ [][NextSort]_vars

\* the symbols in ascending lexical order
LexicalOrder == << "HDFCBANK.NS", "TCS.NS", "WIPRO.NS" >>

LexRank(sym) == CHOOSE i \in 1..Len(LexicalOrder) : LexicalOrder[i] = sym

\* C20: the list a generator returns is sorted by confidence, highest first,
\* and two signals of equal confidence are in ascending lexical order of
\* their symbols.
C20_SortedWithLexicalTies ==
  call.op = "generate" =>
    \A i \in 1..Len(call.result) :
      \A j \in (i + 1)..Len(call.result) :
        \/ call.result[i].confidence > call.result[j].confidence
        \/ /\ call.result[i].confidence = call.result[j].confidence
           /\ LexRank(call.result[i].symbol) < LexRank(call.result[j].symbol)


(***************************************************************************)
(* RiskManager (utils/risk_manager.py).  Its position checks are called on *)
(* their own: no strategy and no scheduler calls them.                     *)
(***************************************************************************)
\* RiskManager(multi_strategy_config) as __init__ leaves it; the stop and
\* the target are in percent
RiskConfigs ==
  [ max_total_positions    : {MaxTotal},
    max_gap_up_positions   : {1},
    max_breakout_positions : {1},
    max_scalping_positions : {1},
    portfolio_stop_loss    : {4, 5},
    daily_profit_target    : {3} ]

NewRiskManager(config) ==
  [ constructed                 |-> TRUE,
    config                      |-> config,
    daily_start_portfolio_value |-> 0,
    current_portfolio_value     |-> 0,
    risk_violations             |-> << >> ]

\* sum(1 for pos in existing_positions if pos.sector == new_sector)
sector_count(existing_positions, new_sector) ==
  Cardinality({ i \in 1..Len(existing_positions) : existing_positions[i].sector = new_sector })

\* Faulty variant of check_position_correlation: the loop over the symbols
\* is missing.  C21_PositionCorrelation fails on it.
check_position_correlation_sector_only(existing_positions, new_symbol, new_sector) ==
  IF sector_count(existing_positions, new_sector) >= 2 THEN FALSE ELSE TRUE

\* RiskManager.check_position_correlation
check_position_correlation(existing_positions, new_symbol, new_sector) ==
  IF sector_count(existing_positions, new_sector) >= 2 THEN FALSE
  ELSE IF \E i \in 1..Len(existing_positions) : existing_positions[i].symbol = new_symbol
       THEN FALSE
  ELSE TRUE

\* the positions a list of existing positions is made of: those of every
\* strategy for the symbols of its universe
PositionPool ==
  { PositionFor(t, s) : t \in {"gap_up"}, s \in DOMAIN Universe("gap_up") }
  \cup { PositionFor(t, s) : t \in {"breakout"}, s \in DOMAIN Universe("breakout") }
  \cup { PositionFor(t, s) : t \in {"scalping"}, s \in DOMAIN Universe("scalping") }

\* existing_positions holds up to MaxExisting positions
MaxExisting == 3

PositionLists == UNION { [1..n -> PositionPool] : n \in 0..MaxExisting }

\* the base quantities handed to calculate_position_size_with_correlation
BaseQuantities == {0, 1, 9, 10, 90, 246}

CorrelationInputs ==
  [ existing_positions : PositionLists,
    new_symbol         : Symbols,
    new_sector         : Sectors,
    base_quantity      : BaseQuantities ]

InitCorrelation ==
  /\ Constructed
  /\ cfg.max_positions = 1
  /\ cfg.allow_scalping_during_signals
  /\ clock = "signal_window"
  /\ risk_manager \in { NewRiskManager(c) : c \in RiskConfigs }
  /\ call \in [ op : {"input"}, args : CorrelationInputs, result : {None} ]

\* the variables a call on the RiskManager cannot reach
outside_risk_manager ==
  << cfg, clock, main_pc, scalping_allowed, queue, pc, pending, positions,
     position_entry_times, recent_signals, daily_pnl, total_pnl, trades_today,
     total_portfolio_pnl, daily_portfolio_pnl, last_non_scalping_trade_time,
     last_activity_count, accepted, cycle_log, main_log, last_open_age,
     close_orders, cycles >>

\* risk_manager.check_position_correlation(existing_positions, new_symbol, new_sector)
CheckPositionCorrelation ==
  /\ call.op = "input"
  /\ call' = [ op     |-> "check_position_correlation",
               args   |-> call.args,
               result |-> check_position_correlation(call.args.existing_positions,
                                                     call.args.new_symbol,
                                                     call.args.new_sector) ]
  /\ UNCHANGED risk_manager
  /\ UNCHANGED outside_risk_manager


\* C21: check_position_correlation returns false if the existing positions
\* hold at least 2 positions of the new sector or a position of the new
\* symbol, and true otherwise, whichever strategies own the existing
\* positions; the call changes neither its arguments nor the RiskManager.
C21_PositionCorrelation ==
  [][ (call.op = "input" /\ call'.op = "check_position_correlation")
      => LET existing == call.args.existing_positions
             in_sector == { i \in 1..Len(existing) :
                              existing[i].sector = call.args.new_sector }
             of_symbol == { i \in 1..Len(existing) :
                              existing[i].symbol = call.args.new_symbol }
         IN  /\ call'.result = ~(Cardinality(in_sector) >= 2 \/ of_symbol # {})
             /\ call'.args = call.args
             /\ risk_manager' = risk_manager ]_vars

\* C21 witness: a third IT position is refused when the two existing IT
\* positions belong to two different strategies and neither is of the new symbol
C21_Witness ==
  /\ call.op = "check_position_correlation"
  /\ call.result = FALSE
  /\ call.args.new_symbol = "WIPRO.NS"
  /\ call.args.new_sector = "IT"
  /\ Len(call.args.existing_positions) = 2
  /\ call.args.existing_positions[1] = PositionFor("breakout", "TCS.NS")
  /\ call.args.existing_positions[2] = PositionFor("scalping", "TCS.NS")


(***************************************************************************)
(* RiskManager: the portfolio's day and the admission of a new position    *)
(* (utils/risk_manager.py).  Portfolio values are rupees; a percentage     *)
(* p = (current - start) / start * 100 is compared with a threshold k by   *)
(* (current - start) * 100 against k * start, which for start > 0 is the   *)
(* same comparison.                                                        *)
(***************************************************************************)
StartValues == {0, 1000000}

PortfolioValues == {940000, 950000, 960000, 1000000, 1030000, 1040000}

\* set_daily_start_value(value)
set_daily_start_value(rm, value) ==
  [rm EXCEPT !.daily_start_portfolio_value = value,
             !.current_portfolio_value = value]

\* update_portfolio_value(value)
update_portfolio_value(rm, value) ==
  [rm EXCEPT !.current_portfolio_value = value]

SafeStatus == [ status |-> "SAFE", violations |-> << >>, actions_required |-> << >> ]

\* check_portfolio_risk with the stop-loss compared strictly
check_portfolio_risk_strict(rm) ==
  LET start == rm.daily_start_portfolio_value
      change == (rm.current_portfolio_value - start) * 100
  IN  IF start <= 0 THEN SafeStatus
      ELSE IF change < (0 - rm.config.portfolio_stop_loss) * start
      THEN [ status |-> "STOP_LOSS_HIT", violations |-> << "Portfolio down" >>,
             actions_required |-> << "CLOSE_ALL_POSITIONS" >> ]
      ELSE IF change >= rm.config.daily_profit_target * start
      THEN [ status |-> "PROFIT_TARGET_HIT", violations |-> << "Portfolio up" >>,
             actions_required |-> << "CONSIDER_CLOSING_POSITIONS" >> ]
      ELSE SafeStatus

\* check_portfolio_risk(): the dict it returns; it assigns no attribute
check_portfolio_risk(rm) ==
  LET start == rm.daily_start_portfolio_value
      change == (rm.current_portfolio_value - start) * 100
  IN  IF start <= 0 THEN SafeStatus
      ELSE IF change <= (0 - rm.config.portfolio_stop_loss) * start
      THEN [ status |-> "STOP_LOSS_HIT", violations |-> << "Portfolio down" >>,
             actions_required |-> << "CLOSE_ALL_POSITIONS" >> ]
      ELSE IF change >= rm.config.daily_profit_target * start
      THEN [ status |-> "PROFIT_TARGET_HIT", violations |-> << "Portfolio up" >>,
             actions_required |-> << "CONSIDER_CLOSING_POSITIONS" >> ]
      ELSE SafeStatus

\* the names a caller passes for the three strategies
StrategyNames == {"gap_up_short", "breakout", "scalping"}

\* should_allow_new_position(strategy_name, current_positions, breakout_positions)
should_allow_new_position(rm, strategy_name, current_positions, breakout_positions) ==
  LET total_positions == Count(current_positions) + Count(breakout_positions)
  IN  IF total_positions >= rm.config.max_total_positions THEN FALSE
      ELSE IF strategy_name = "gap_up_short"
              /\ Count(current_positions) >= rm.config.max_gap_up_positions THEN FALSE
      ELSE IF strategy_name = "breakout"
              /\ Count(breakout_positions) >= rm.config.max_breakout_positions THEN FALSE
      ELSE IF check_portfolio_risk(rm).status # "SAFE" THEN FALSE
      ELSE TRUE

\* the strategies' books at the time the RiskManager is asked: each within
\* its own limit and the three within the portfolio's
Books ==
  { b \in [ Strategies -> UNION { [held -> {0}] : held \in SUBSET Symbols } ] :
      /\ \A t \in Strategies : DOMAIN b[t] \subseteq DOMAIN Universe(t)
      /\ \A t \in Strategies : Count(b[t]) <= 1
      /\ SumOver([t \in Strategies |-> Count(b[t])], Strategies) <= MaxTotal }

InitRisk ==
  /\ cfg \in Configs
  /\ cfg.max_positions = 1
  /\ cfg.allow_scalping_during_signals
  /\ clock = "signal_window"
  /\ main_pc = "loop"
  /\ scalping_allowed = FALSE
  /\ queue = << >>
  /\ pc = [t \in Strategies |-> "idle"]
  /\ pending = [t \in Strategies |-> << >>]
  /\ cycle_log = [t \in Strategies |-> << >>]
  /\ main_log = << >>
  /\ cycles = 0
  /\ \E b \in Books :
       /\ positions = [t \in Strategies |-> [s \in DOMAIN b[t] |-> PositionFor(t, s)]]
       /\ position_entry_times = [s \in DOMAIN b["scalping"] |-> 0]
  /\ recent_signals = EmptyDict
  /\ daily_pnl = [t \in Strategies |-> 0]
  /\ total_pnl = [t \in Strategies |-> 0]
  /\ trades_today = 0
  /\ total_portfolio_pnl = 0
  /\ daily_portfolio_pnl = 0
  /\ last_non_scalping_trade_time = None
  /\ last_activity_count = None
  /\ accepted = 0
  /\ last_open_age = None
  /\ close_orders = {}
  /\ risk_manager \in { NewRiskManager(c) : c \in RiskConfigs }
  /\ call = [ op |-> "__init__", result |-> None, hit_today |-> FALSE ]

\* set_daily_start_value(value), at the start of a day
SetDailyStartValue ==
  \E value \in StartValues :
    /\ risk_manager' = set_daily_start_value(risk_manager, value)
    /\ call' = [ op |-> "set_daily_start_value", result |-> None, hit_today |-> FALSE ]
    /\ UNCHANGED outside_risk_manager

\* update_portfolio_value(value)
UpdatePortfolioValue ==
  \E value \in PortfolioValues :
    /\ risk_manager' = update_portfolio_value(risk_manager, value)
    /\ call' = [ op |-> "update_portfolio_value", result |-> None,
                 hit_today |-> call.hit_today ]
    /\ UNCHANGED outside_risk_manager

\* check_portfolio_risk(); hit_today records that an evaluation since the
\* last set_daily_start_value returned a status other than SAFE, hit_before
\* that one had done so before this evaluation
CheckPortfolioRisk ==
  LET result == check_portfolio_risk(risk_manager)
  IN  /\ call' = [ op |-> "check_portfolio_risk", result |-> result,
                   hit_before |-> call.hit_today,
                   hit_today |-> (call.hit_today \/ result.status # "SAFE") ]
      /\ UNCHANGED risk_manager
      /\ UNCHANGED outside_risk_manager

\* should_allow_new_position(strategy_name, gap-short positions, breakout positions)
ShouldAllowNewPosition ==
  \E strategy_name \in StrategyNames :
    /\ call' = [ op |-> "should_allow_new_position",
                 strategy_name |-> strategy_name,
                 result |-> should_allow_new_position(risk_manager, strategy_name,
                                                      positions["gap_up"],
                                                      positions["breakout"]),
                 hit_today |-> call.hit_today ]
    /\ UNCHANGED risk_manager
    /\ UNCHANGED outside_risk_manager

NextRisk ==
  \/ SetDailyStartValue
  \/ UpdatePortfolioValue
  \/ CheckPortfolioRisk
  \/ ShouldAllowNewPosition

SpecRisk == InitRisk /\ [][NextRisk]_vars

\* open positions of all three strategies
TotalOpenPositions == SumOver([t \in Strategies |-> Count(positions[t])], Strategies)

\* the requesting strategy's book and its limit
BookOf(strategy_name) ==
  IF strategy_name = "gap_up_short" THEN "gap_up" ELSE strategy_name

LimitOf(config, strategy_name) ==
  IF strategy_name = "gap_up_short" THEN config.max_gap_up_positions
  ELSE IF strategy_name = "breakout" THEN config.max_breakout_positions
  ELSE config.max_scalping_positions

\* C22: should_allow_new_position answers True exactly when the open positions
\* of all three strategies are below max_total_positions, the requesting
\* strategy is below its own limit, and the portfolio risk status is SAFE
C22_AdmissionLimits ==
  call.op = "should_allow_new_position" =>
    call.result =
      ( /\ TotalOpenPositions < risk_manager.config.max_total_positions
        /\ Count(positions[BookOf(call.strategy_name)])
             < LimitOf(risk_manager.config, call.strategy_name)
        /\ check_portfolio_risk(risk_manager).status = "SAFE" )


\* (current - start) * 100, the day's change in hundredths of the start value
DayChange(rm) == (rm.current_portfolio_value - rm.daily_start_portfolio_value) * 100

StopLossReached(rm) ==
  DayChange(rm) <= (0 - rm.config.portfolio_stop_loss) * rm.daily_start_portfolio_value

ProfitTargetReached(rm) ==
  DayChange(rm) >= rm.config.daily_profit_target * rm.daily_start_portfolio_value

\* C23: with a day-start value above zero, check_portfolio_risk returns
\* STOP_LOSS_HIT with CLOSE_ALL_POSITIONS exactly when the day's percentage is
\* at or below minus portfolio_stop_loss, otherwise PROFIT_TARGET_HIT with
\* CONSIDER_CLOSING_POSITIONS exactly when it is at or above
\* daily_profit_target, otherwise SAFE with no violation and no action; the
\* call leaves the RiskManager, the positions and the orders as they were
C23_PortfolioRiskClassification ==
  [][ (call'.op = "check_portfolio_risk" /\ risk_manager.daily_start_portfolio_value > 0) =>
        /\ (call'.result.status = "STOP_LOSS_HIT") = StopLossReached(risk_manager)
        /\ (call'.result.status = "PROFIT_TARGET_HIT")
             = (~StopLossReached(risk_manager) /\ ProfitTargetReached(risk_manager))
        /\ (call'.result.status = "SAFE")
             = (~StopLossReached(risk_manager) /\ ~ProfitTargetReached(risk_manager))
        /\ call'.result.status = "STOP_LOSS_HIT" =>
             call'.result.actions_required = << "CLOSE_ALL_POSITIONS" >>
        /\ call'.result.status = "PROFIT_TARGET_HIT" =>
             call'.result.actions_required = << "CONSIDER_CLOSING_POSITIONS" >>
        /\ call'.result.status = "SAFE" =>
             /\ call'.result.violations = << >>
             /\ call'.result.actions_required = << >>
        /\ risk_manager' = risk_manager
        /\ positions' = positions
        /\ close_orders' = close_orders
        /\ accepted' = accepted ]_vars

\* 1,000,000 at the start of the day, 940,000 now, stop-loss 5 percent
C23_Witness ==
  /\ call.op = "check_portfolio_risk"
  /\ risk_manager.daily_start_portfolio_value = 1000000
  /\ risk_manager.current_portfolio_value = 940000
  /\ risk_manager.config.portfolio_stop_loss = 5
  /\ call.result.status = "STOP_LOSS_HIT"
  /\ call.result.actions_required = << "CLOSE_ALL_POSITIONS" >>

\* C24: once an evaluation has returned STOP_LOSS_HIT or PROFIT_TARGET_HIT, no
\* later evaluation before the next set_daily_start_value returns SAFE
C24_HitIsTerminalForTheDay ==
  (call.op = "check_portfolio_risk" /\ call.hit_before) => call.result.status # "SAFE"


(***************************************************************************)
(* Order-book imbalance: Level2DataService.calculate_bid_ask_imbalance     *)
(* (strategies/level2_scalping_strategy.py) and                            *)
(* EnhancedFyersService.analyze_order_book_imbalance                       *)
(* (services/enhanced_fyers_service.py).  A ratio bid / ask is the         *)
(* fraction in lowest terms; float('inf') is the fraction 1 / 0.           *)
(***************************************************************************)
MaxDepth == 4

TopLevels == 3

LevelQuantities == {0, 1000, 3000}

RECURSIVE GCD(_, _)
GCD(a, b) == IF b = 0 THEN a ELSE GCD(b, a % b)

Inf == [ num |-> 1, den |-> 0 ]

One == [ num |-> 1, den |-> 1 ]

\* bid / ask for ask > 0
Ratio(bid, ask) == [ num |-> bid \div GCD(bid, ask), den |-> ask \div GCD(bid, ask) ]

\* levels[:n]
Take(levels, n) == SubSeq(levels, 1, Min2(n, Len(levels)))

RECURSIVE SumQuantity(_)
SumQuantity(levels) ==
  IF levels = << >> THEN 0 ELSE Head(levels).quantity + SumQuantity(Tail(levels))

\* calculate_bid_ask_imbalance without the test for an empty side
calculate_bid_ask_imbalance_unguarded(order_book) ==
  LET total_bid_volume == SumQuantity(Take(order_book.bids, TopLevels))
      total_ask_volume == SumQuantity(Take(order_book.asks, TopLevels))
  IN  IF total_ask_volume = 0 THEN Inf
      ELSE Ratio(total_bid_volume, total_ask_volume)

\* Level2DataService.calculate_bid_ask_imbalance(order_book)
calculate_bid_ask_imbalance(order_book) ==
  IF order_book.bids = << >> \/ order_book.asks = << >> THEN One
  ELSE LET total_bid_volume == SumQuantity(Take(order_book.bids, TopLevels))
           total_ask_volume == SumQuantity(Take(order_book.asks, TopLevels))
       IN  IF total_ask_volume = 0 THEN Inf
           ELSE Ratio(total_bid_volume, total_ask_volume)

\* EnhancedFyersService.analyze_order_book_imbalance(order_book, levels): the
\* volumes and the ratio of the dict it returns (the percentages and
\* spread_bps are computed from the same sums, after the ratio)
analyze_order_book_imbalance(order_book, levels) ==
  IF order_book.bids = << >> \/ order_book.asks = << >>
  THEN [ bid_volume |-> 0, ask_volume |-> 0, imbalance_ratio |-> One ]
  ELSE LET bid_volume == SumQuantity(Take(order_book.bids, levels))
           ask_volume == SumQuantity(Take(order_book.asks, levels))
           total_volume == bid_volume + ask_volume
       IN  IF total_volume = 0
           THEN [ bid_volume |-> 0, ask_volume |-> 0, imbalance_ratio |-> One ]
           ELSE [ bid_volume |-> bid_volume, ask_volume |-> ask_volume,
                  imbalance_ratio |-> IF ask_volume > 0 THEN Ratio(bid_volume, ask_volume)
                                      ELSE Inf ]

\* one side of a parsed book: best price first, prices in paise, bids below
\* 1000.00 and asks above, one paisa apart
BookSides(side) ==
  UNION { { [i \in 1..n |-> [ price |-> IF side = "BID" THEN 100000 - i ELSE 100000 + i,
                               quantity |-> q[i], side |-> side ]] :
              q \in [1..n -> LevelQuantities] } : n \in 0..MaxDepth }

OrderBookSnapshots == [ bids : BookSides("BID"), asks : BookSides("ASK") ]

\* the value of a result before its function is called
NotCalled == [ called |-> FALSE ]

InitImbalance ==
  /\ Constructed
  /\ cfg.max_positions = 1
  /\ cfg.allow_scalping_during_signals
  /\ clock = "midday"
  /\ risk_manager = NoRiskManager
  /\ call \in [ op : {"input"}, order_book : OrderBookSnapshots, level2 : {NotCalled}, enhanced : {NotCalled} ]

\* calculate_bid_ask_imbalance(order_book)
CalculateBidAskImbalance ==
  /\ call.level2 = NotCalled
  /\ call' = [call EXCEPT !.op = "calculate_bid_ask_imbalance",
                          !.level2 = calculate_bid_ask_imbalance(call.order_book)]
  /\ UNCHANGED rest_of_state

\* analyze_order_book_imbalance(order_book), levels at its default
AnalyzeOrderBookImbalance ==
  /\ call.enhanced = NotCalled
  /\ call' = [call EXCEPT !.op = "analyze_order_book_imbalance",
                          !.enhanced = analyze_order_book_imbalance(call.order_book, TopLevels)]
  /\ UNCHANGED rest_of_state

NextImbalance ==
  \/ CalculateBidAskImbalance
  \/ AnalyzeOrderBookImbalance

SpecImbalance == InitImbalance /\ [][NextImbalance]_vars

EmptySide(order_book) == order_book.bids = << >> \/ order_book.asks = << >>

\* C25: on an order book whose bids or asks are empty both implementations
\* return an imbalance ratio of exactly 1.0
C25_EmptySideIsNeutral ==
  (call.op \in {"calculate_bid_ask_imbalance", "analyze_order_book_imbalance"}
     /\ EmptySide(call.order_book)) =>
    /\ call.level2 # NotCalled => call.level2 = One
    /\ call.enhanced # NotCalled => call.enhanced.imbalance_ratio = One

\* no bids, two ask levels, both implementations called
C25_Witness ==
  /\ call.op \in {"calculate_bid_ask_imbalance", "analyze_order_book_imbalance"}
  /\ call.order_book.bids = << >>
  /\ Len(call.order_book.asks) = 2
  /\ call.level2 = One
  /\ call.enhanced # NotCalled
  /\ call.enhanced.imbalance_ratio = One

\* C26: with at least one bid and one ask level and no quantity in the top
\* ask levels, the ratio returned is the infinite sentinel whatever the bid
\* quantities, and the two implementations return the same ratio on every book
C26_ZeroAskIsInfiniteInBoth ==
  (call.op \in {"calculate_bid_ask_imbalance", "analyze_order_book_imbalance"}
     /\ call.level2 # NotCalled /\ call.enhanced # NotCalled) =>
    /\ call.level2 = call.enhanced.imbalance_ratio
    /\ (~EmptySide(call.order_book)
          /\ SumQuantity(Take(call.order_book.asks, TopLevels)) = 0) =>
         (call.level2 = Inf /\ call.enhanced.imbalance_ratio = Inf)


(***************************************************************************)
(* Level2ScalpingSignalService._analyze_scalping_opportunity and what it   *)
(* calls, with ScalpingConfig's defaults: min_bid_ask_imbalance_ratio 2.5, *)
(* min_volume_at_level 2000, stop_loss_ticks 3, target_ticks 6, spread     *)
(* between 1 and 4 ticks.  Prices are paise, confidences ten-thousandths.  *)
(***************************************************************************)
\* _check_spread_constraints(order_book, config); int((ask - bid) * 100)
\* truncates the float product, which for best prices two paise apart
\* (1000.01 - 999.99) is 1.99..., so one tick
check_spread_constraints(order_book) ==
  IF order_book.bids = << >> \/ order_book.asks = << >> THEN FALSE
  ELSE LET paise == order_book.asks[1].price - order_book.bids[1].price
           spread_ticks == IF paise = 2 THEN 1 ELSE paise
       IN  1 <= spread_ticks /\ spread_ticks <= 4

RECURSIVE SignificantPrices(_)
SignificantPrices(levels) ==
  IF levels = << >> THEN << >>
  ELSE IF Head(levels).quantity >= 2000
       THEN << Head(levels).price >> \o SignificantPrices(Tail(levels))
       ELSE SignificantPrices(Tail(levels))

\* Level2DataService.identify_support_resistance_levels(order_book, config)
identify_support_resistance_levels(order_book) ==
  [ support    |-> Take(SignificantPrices(order_book.bids), 3),
    resistance |-> Take(SignificantPrices(order_book.asks), 3) ]

\* abs(current_price - level) / current_price <= per_mille / 1000
Within(current_price, level, per_mille) ==
  Abs(current_price - level) * 1000 <= per_mille * current_price

NoBounce == [ signal_type |-> "None" ]

\* _check_bounce_opportunities(current_price, levels, order_book, config)
check_bounce_opportunities(current_price, levels) ==
  IF \E i \in 1..Len(levels.support) : Within(current_price, levels.support[i], 1)
  THEN [ signal_type |-> "SUPPORT_BOUNCE", side |-> "LONG", entry_price |-> current_price ]
  ELSE IF \E i \in 1..Len(levels.resistance) : Within(current_price, levels.resistance[i], 1)
  THEN [ signal_type |-> "RESISTANCE_BOUNCE", side |-> "SHORT", entry_price |-> current_price ]
  ELSE NoBounce

\* imbalance_ratio >= min_bid_ask_imbalance_ratio (2.5 = 5 / 2)
StrongBidImbalance(imbalance_ratio) == imbalance_ratio.num * 2 >= 5 * imbalance_ratio.den

\* imbalance_ratio <= 1.0 / min_bid_ask_imbalance_ratio (2 / 5)
StrongAskImbalance(imbalance_ratio) == imbalance_ratio.num * 5 <= 2 * imbalance_ratio.den

\* an exception raised inside a function
Raised == None

\* _calculate_scalping_confidence(order_book, imbalance_ratio, levels,
\* current_price, config) on the book itself; 1.0 / imbalance_ratio raises
\* ZeroDivisionError when the ratio is 0.0
scalping_confidence_of_book(order_book, imbalance_ratio, levels, current_price) ==
  LET depth_score == Min2(Len(order_book.bids) + Len(order_book.asks), 10) * 250
      imbalance_score ==
        IF StrongBidImbalance(imbalance_ratio)
        THEN IF imbalance_ratio.den = 0 THEN 3500
             ELSE (Min2((imbalance_ratio.num * ConfidenceOne) \div (imbalance_ratio.den * 5),
                        ConfidenceOne) * 35) \div 100
        ELSE IF StrongAskImbalance(imbalance_ratio)
        THEN IF imbalance_ratio.num = 0 THEN Raised
             ELSE (Min2((imbalance_ratio.den * ConfidenceOne) \div (imbalance_ratio.num * 5),
                        ConfidenceOne) * 35) \div 100
        ELSE 1000
      best_bid_volume == IF order_book.bids # << >> THEN order_book.bids[1].quantity ELSE 0
      best_ask_volume == IF order_book.asks # << >> THEN order_book.asks[1].quantity ELSE 0
      total_volume == best_bid_volume + best_ask_volume
      volume_score == (Min2((total_volume * ConfidenceOne) \div (2000 * 2), ConfidenceOne) * 25)
                        \div 100
      all_levels == levels.support \o levels.resistance
      proximity_score == IF \E i \in 1..Len(all_levels) : Within(current_price, all_levels[i], 2)
                         THEN 1500 ELSE 0
  IN  IF imbalance_score = Raised THEN Raised
      ELSE Min2(depth_score + imbalance_score + volume_score + proximity_score, ConfidenceOne)

NoSignal == [ signal_type |-> "None" ]

\* the TradingSignal _analyze_scalping_opportunity builds
ScalpingSignal(kind, side, entry_price, confidence, imbalance_ratio) ==
  [ signal_type  |-> IF side = "LONG" THEN "LONG_" \o kind ELSE "SHORT_" \o kind,
    entry_price  |-> entry_price,
    stop_loss    |-> IF side = "LONG" THEN entry_price - 3 * 5 ELSE entry_price + 3 * 5,
    target_price |-> IF side = "LONG" THEN entry_price + 6 * 5 ELSE entry_price - 6 * 5,
    confidence   |-> confidence,
    volume_ratio |-> imbalance_ratio ]

\* _analyze_scalping_opportunity(symbol, sector, market_data, order_book,
\* config): the signal, NoSignal for None; an exception is caught and gives None
analyze_scalping_opportunity(order_book, current_price) ==
  LET imbalance_ratio == calculate_bid_ask_imbalance(order_book)
      levels == identify_support_resistance_levels(order_book)
      bounce == check_bounce_opportunities(current_price, levels)
      confidence == scalping_confidence_of_book(order_book, imbalance_ratio, levels, current_price)
  IN  IF StrongBidImbalance(imbalance_ratio)
      THEN ScalpingSignal("BID_ASK_IMBALANCE", "LONG", current_price, confidence,
                          imbalance_ratio)
      ELSE IF StrongAskImbalance(imbalance_ratio)
      THEN IF confidence = Raised THEN NoSignal
           ELSE ScalpingSignal("BID_ASK_IMBALANCE", "SHORT", current_price, confidence,
                               imbalance_ratio)
      ELSE IF bounce = NoBounce THEN NoSignal
      ELSE ScalpingSignal(bounce.signal_type, bounce.side, bounce.entry_price, confidence,
                          imbalance_ratio)

\* the last traded price: between the best prices, or one percent above
CurrentPrices == {100000, 101000}

InitAnalyze ==
  /\ Constructed
  /\ cfg.max_positions = 1
  /\ cfg.allow_scalping_during_signals
  /\ clock = "midday"
  /\ risk_manager = NoRiskManager
  /\ call \in [ op : {"input"}, order_book : OrderBookSnapshots,
                current_price : CurrentPrices, result : {NoSignal} ]

\* _analyze_scalping_opportunity(symbol, sector, market_data, order_book, config)
AnalyzeScalpingOpportunity ==
  /\ call.op = "input"
  /\ call' = [call EXCEPT !.op = "analyze_scalping_opportunity",
                          !.result = analyze_scalping_opportunity(call.order_book,
                                                                  call.current_price)]
  /\ UNCHANGED rest_of_state

NextAnalyze ==
  \/ AnalyzeScalpingOpportunity

SpecAnalyze == InitAnalyze /\ [][NextAnalyze]_vars

\* C27: on a book that passes the spread gate, a ratio at or above
\* min_bid_ask_imbalance_ratio gives a LONG_BID_ASK_IMBALANCE signal, a ratio at
\* or below its reciprocal (0 included) gives a SHORT_BID_ASK_IMBALANCE signal,
\* and a bounce signal is given only for a ratio strictly between the two
C27_ImbalanceDirection ==
  (call.op = "analyze_scalping_opportunity" /\ check_spread_constraints(call.order_book)) =>
    LET imbalance_ratio == calculate_bid_ask_imbalance(call.order_book)
    IN  /\ StrongBidImbalance(imbalance_ratio) =>
             call.result.signal_type = "LONG_BID_ASK_IMBALANCE"
        /\ StrongAskImbalance(imbalance_ratio) =>
             call.result.signal_type = "SHORT_BID_ASK_IMBALANCE"
        /\ call.result.signal_type \in {"LONG_SUPPORT_BOUNCE", "SHORT_RESISTANCE_BOUNCE"} =>
             (~StrongBidImbalance(imbalance_ratio) /\ ~StrongAskImbalance(imbalance_ratio))


(***************************************************************************)
(* SignalGenerationService.generate_signals on the quotes and indicators   *)
(* of its symbols: gaps and volume ratios in tenths, selling pressure in   *)
(* points of 100.                                                          *)
(***************************************************************************)
IndexGaps == {0, 2, 10}

SymbolQuotes == [ gap_percentage : {0, 5, 50}, selling_pressure : {30, 40, 100},
                  volume_ratio : {10, 12, 30} ]

\* market_data_dict with the indicators of the symbols it holds
QuoteDicts == UNION { [S -> SymbolQuotes] : S \in SUBSET (DOMAIN stock_sectors) }

\* the loop over stock_sectors: the signals in the order they are appended
RECURSIVE AppendedSignals(_, _)
AppendedSignals(order, quotes) ==
  IF order = << >> THEN << >>
  ELSE LET symbol == Head(order)
           rest == AppendedSignals(Tail(order), quotes)
       IN  IF symbol \notin DOMAIN quotes THEN rest
           ELSE LET confidence == signal_confidence(
                                    [ generator        |-> "gap_up",
                                      selling_pressure |-> quotes[symbol].selling_pressure,
                                      volume_ratio     |-> quotes[symbol].volume_ratio,
                                      gap_percentage   |-> quotes[symbol].gap_percentage,
                                      sector           |-> stock_sectors[symbol] ])
                IN  IF confidence = None THEN rest
                    ELSE << [ symbol                 |-> symbol,
                              sector                 |-> stock_sectors[symbol],
                              signal_type            |-> "SHORT",
                              confidence             |-> confidence,
                              gap_percentage         |-> quotes[symbol].gap_percentage,
                              selling_pressure_score |-> quotes[symbol].selling_pressure,
                              volume_ratio           |-> quotes[symbol].volume_ratio ] >>
                         \o rest

\* generate_signals(index_data, config) from the index gap and the quotes
generate_signals_of_quotes(index_gap_percentage, quotes) ==
  IF index_gap_percentage <= 0 THEN << >>
  ELSE SortByConfidence(AppendedSignals(UniverseOrder("gap_up"), quotes))

InitGapSignals ==
  /\ Constructed
  /\ cfg.max_positions = 1
  /\ cfg.allow_scalping_during_signals
  /\ clock = "signal_window"
  /\ risk_manager = NoRiskManager
  /\ call \in [ op : {"input"}, index_gap_percentage : IndexGaps, quotes : QuoteDicts,
                result : {<< >>} ]

\* generate_signals(index_data, config)
GenerateSignalsOfQuotes ==
  /\ call.op = "input"
  /\ call' = [call EXCEPT !.op = "generate_signals",
                          !.result = generate_signals_of_quotes(call.index_gap_percentage,
                                                                call.quotes)]
  /\ UNCHANGED rest_of_state

NextGapSignals ==
  \/ GenerateSignalsOfQuotes

SpecGapSignals == InitGapSignals /\ [][NextGapSignals]_vars

\* the symbol's gap, selling pressure and volume ratio are all at or above
\* min_gap_percentage 0.5, min_selling_pressure 40, min_volume_ratio 1.2
MeetsAllThree(q) == q.gap_percentage >= 5 /\ q.selling_pressure >= 40 /\ q.volume_ratio >= 12

\* C28: every signal generate_signals returns is for a symbol whose gap,
\* selling pressure and volume ratio are all at or above their configured
\* minimum, and when no symbol meets all three the result is empty
C28_GapShortEmissionGates ==
  call.op = "generate_signals" =>
    /\ \A i \in 1..Len(call.result) :
         /\ call.result[i].symbol \in DOMAIN call.quotes
         /\ MeetsAllThree(call.quotes[call.result[i].symbol])
    /\ (\A s \in DOMAIN call.quotes : ~MeetsAllThree(call.quotes[s])) => call.result = << >>

\* index gap 0.2%; TCS.NS exactly at the three minimums, WIPRO.NS with no gap
\* and selling pressure 30
C28_Witness ==
  /\ call.op = "generate_signals"
  /\ call.index_gap_percentage = 2
  /\ DOMAIN call.quotes = {"TCS.NS", "WIPRO.NS"}
  /\ call.quotes["TCS.NS"] = [ gap_percentage |-> 5, selling_pressure |-> 40, volume_ratio |-> 12 ]
  /\ call.quotes["WIPRO.NS"] = [ gap_percentage |-> 0, selling_pressure |-> 30, volume_ratio |-> 30 ]
  /\ Len(call.result) = 1
  /\ call.result[1].symbol = "TCS.NS"


(***************************************************************************)
(* RiskManager.calculate_position_size_with_correlation.  base * 0.7 is a  *)
(* product of doubles: 0.7 is stored as 0.7 - 0.4 * 2^-53, so the exact    *)
(* product lies 0.4 * base * 2^-53 below 7 * base / 10.  When that is not  *)
(* an integer, int() truncates to its floor.  When it is an integer k (with*)
(* 2^e <= k < 2^(e+1)), the doubles just below k are 2^(e-52) apart and    *)
(* the product rounds up to k only if 0.4 * base <= 2^e; otherwise it      *)
(* rounds to the double below k and int() gives k - 1.                     *)
(***************************************************************************)
\* the largest power of two not above k, for k >= 1
RECURSIVE Pow2Floor(_)
Pow2Floor(k) == IF k < 2 THEN 1 ELSE 2 * Pow2Floor(k \div 2)

\* int(base_quantity * 0.7) for base_quantity >= 0
int_of_seven_tenths(base_quantity) ==
  LET k == (7 * base_quantity) \div 10
  IN  IF base_quantity > 0 /\ base_quantity % 10 = 0 /\ 4 * base_quantity > 10 * Pow2Floor(k)
      THEN k - 1
      ELSE k

\* calculate_position_size_with_correlation(base_quantity, existing_positions, new_sector)
calculate_position_size_with_correlation(base_quantity, existing_positions, new_sector) ==
  IF sector_count(existing_positions, new_sector) >= 1
  THEN int_of_seven_tenths(base_quantity)
  ELSE base_quantity

\* risk_manager.calculate_position_size_with_correlation(base_quantity,
\* existing_positions, new_sector)
CalculatePositionSizeWithCorrelation ==
  /\ call.op = "input"
  /\ call' = [ op     |-> "calculate_position_size_with_correlation",
               args   |-> call.args,
               result |-> calculate_position_size_with_correlation(
                            call.args.base_quantity, call.args.existing_positions,
                            call.args.new_sector) ]
  /\ UNCHANGED risk_manager
  /\ UNCHANGED outside_risk_manager

NextCorrelation ==
  \/ CheckPositionCorrelation
  \/ CalculatePositionSizeWithCorrelation

SpecCorrelation == InitCorrelation /\ [][NextCorrelation]_vars

\* C29: calculate_position_size_with_correlation returns floor(0.7 x base) when
\* the existing positions hold at least one in the new sector and base
\* otherwise; the result is never above base and never negative
C29_CorrelationSizing ==
  call.op = "calculate_position_size_with_correlation" =>
    LET in_sector == { i \in 1..Len(call.args.existing_positions) :
                         call.args.existing_positions[i].sector = call.args.new_sector }
    IN  /\ call.result = IF in_sector # {} THEN (7 * call.args.base_quantity) \div 10
                         ELSE call.args.base_quantity
        /\ call.result <= call.args.base_quantity
        /\ call.result >= 0


\* the direction of the signal a tracked position was created from: gap-short
\* signals are SHORT, breakout signals LONG_BREAKOUT, and a scalping signal
\* puts its stop above the entry when it is SHORT_* and below when LONG_*
ShortDirection(t, position) ==
  \/ t = "gap_up"
  \/ t = "scalping" /\ position.stop_loss > position.entry_price

\* C30: every position created from a short-direction signal has a negative
\* quantity and every position created from a long-direction signal a
\* positive one
C30_QuantitySignEncodesDirection ==
  \A t \in Strategies :
    \A s \in DOMAIN positions[t] :
      IF ShortDirection(t, positions[t][s])
      THEN positions[t][s].quantity < 0
      ELSE positions[t][s].quantity > 0


(***************************************************************************)
(* Level2ScalpingStrategy._check_position_timing and _close_position with  *)
(* the order each close sends to the broker.                               *)
(***************************************************************************)
\* _close_position with the close order on the side of the position
close_position_same_side(pos, entry_times, symbol, order_result) ==
  IF symbol \notin DOMAIN pos
  THEN [ positions |-> pos, position_entry_times |-> entry_times, orders |-> << >> ]
  ELSE LET order == [ symbol     |-> symbol,
                      side       |-> IF pos[symbol].quantity > 0 THEN "1" ELSE "-1",
                      quantity   |-> Abs(pos[symbol].quantity),
                      order_type |-> "2" ]
       IN  IF order_result
           THEN [ positions |-> Remove(pos, {symbol}),
                  position_entry_times |-> Remove(entry_times, {symbol}),
                  orders |-> << order >> ]
           ELSE [ positions |-> pos, position_entry_times |-> entry_times,
                  orders |-> << order >> ]

\* _close_position(symbol, reason); order_result: place_order returned an order
\* (a rejection returns None, an exception is caught; both leave the dicts)
close_position(pos, entry_times, symbol, order_result) ==
  IF symbol \notin DOMAIN pos
  THEN [ positions |-> pos, position_entry_times |-> entry_times, orders |-> << >> ]
  ELSE LET order == [ symbol     |-> symbol,
                      side       |-> IF pos[symbol].quantity > 0 THEN "-1" ELSE "1",
                      quantity   |-> Abs(pos[symbol].quantity),
                      order_type |-> "2" ]
       IN  IF order_result
           THEN [ positions |-> Remove(pos, {symbol}),
                  position_entry_times |-> Remove(entry_times, {symbol}),
                  orders |-> << order >> ]
           ELSE [ positions |-> pos, position_entry_times |-> entry_times,
                  orders |-> << order >> ]

\* the loop over positions_to_close, in the order of the dict
RECURSIVE close_each(_, _, _, _, _)
close_each(order, to_close, pos, entry_times, close_ok) ==
  IF order = << >>
  THEN [ positions |-> pos, position_entry_times |-> entry_times, orders |-> << >> ]
  ELSE IF Head(order) \notin to_close
  THEN close_each(Tail(order), to_close, pos, entry_times, close_ok)
  ELSE LET one  == close_position(pos, entry_times, Head(order), Head(order) \in close_ok)
           rest == close_each(Tail(order), to_close, one.positions,
                              one.position_entry_times, close_ok)
       IN  [rest EXCEPT !.orders = one.orders \o rest.orders]

\* _check_position_timing(); close_ok: the symbols whose close order the
\* broker accepts
check_position_timing(pos, entry_times, close_ok) ==
  close_each(SymbolOrder, positions_to_close(pos, entry_times), pos, entry_times, close_ok)

\* the scalping strategy's book at the start of a cycle: at most
\* ScalpingConfig.max_positions (1) position, long or short
ScalpingBooks ==
  {EmptyDict} \cup
  { [s \in {sym} |-> NewScalpingPosition(MakeSignal("scalping", sym,
                                                    [confidence |-> 90, side |-> sd]),
                                         scalping_quantity(SignalFor("scalping", sym)))] :
      sym \in DOMAIN scalping_universe, sd \in {"LONG", "SHORT"} }

InitTiming ==
  /\ cfg \in Configs
  /\ clock \in { DaySegments[i] : i \in 1..Len(DaySegments) }
  /\ main_pc = "loop"
  /\ scalping_allowed = FALSE
  /\ queue = << >>
  /\ pc = [t \in Strategies |-> "idle"]
  /\ pending = [t \in Strategies |-> << >>]
  /\ cycle_log = [t \in Strategies |-> << >>]
  /\ main_log = << >>
  /\ cycles = 0
  /\ \E book \in ScalpingBooks :
       /\ positions = [t \in Strategies |-> IF t = "scalping" THEN book ELSE EmptyDict]
       /\ position_entry_times \in
            UNION { [S -> 0..AgeCap] : S \in SUBSET (DOMAIN book) }
  /\ recent_signals = EmptyDict
  /\ daily_pnl = [t \in Strategies |-> 0]
  /\ total_pnl = [t \in Strategies |-> 0]
  /\ trades_today = 0
  /\ total_portfolio_pnl = 0
  /\ daily_portfolio_pnl = 0
  /\ last_non_scalping_trade_time = None
  /\ last_activity_count = None
  /\ accepted = 0
  /\ last_open_age = None
  /\ close_orders = {}
  /\ risk_manager = NoRiskManager
  /\ call = [ op |-> "cycle_start", cycle_log |-> << >>, orders |-> << >>,
              close_ok |-> {}, rejected_before |-> {} ]

outside_timing == << cfg, clock, main_pc, scalping_allowed, queue, pc, pending, recent_signals, daily_pnl, total_pnl, trades_today, total_portfolio_pnl, daily_portfolio_pnl, last_non_scalping_trade_time, last_activity_count, accepted, cycle_log, main_log, last_open_age, cycles, risk_manager >>

\* the first step of run_scalping_cycle: _check_position_timing()
CheckPositionTimingCall ==
  /\ call.op = "cycle_start"
  /\ run_scalping_cycle[Len(call.cycle_log) + 1] = "check_position_timing"
  /\ \E close_ok \in SUBSET positions_to_close(positions["scalping"], position_entry_times) :
       LET result == check_position_timing(positions["scalping"], position_entry_times,
                                           close_ok)
       IN  /\ positions' = [positions EXCEPT !["scalping"] = result.positions]
           /\ position_entry_times' = result.position_entry_times
           /\ close_orders' = close_orders \cup { result.orders[i].symbol :
                                                   i \in 1..Len(result.orders) }
           /\ call' = [ op |-> "check_position_timing",
                        cycle_log |-> Append(call.cycle_log, "check_position_timing"),
                        orders |-> result.orders,
                        close_ok |-> close_ok,
                        rejected_before |-> call.rejected_before ]
  /\ UNCHANGED outside_timing

\* the next scalping cycle starts 1..MaxStep ticks later with the book the
\* timing check left
NextScalpingCycle ==
  /\ call.op = "check_position_timing"
  /\ \E d \in 1..MaxStep :
       position_entry_times' = AgeAll(position_entry_times, d)
  /\ close_orders' = {}
  /\ call' = [ op |-> "cycle_start", cycle_log |-> << >>, orders |-> << >>,
               close_ok |-> {},
               rejected_before |-> { call.orders[i].symbol : i \in 1..Len(call.orders) }
                                     \ call.close_ok ]
  /\ UNCHANGED positions
  /\ UNCHANGED outside_timing

NextTiming ==
  \/ CheckPositionTimingCall
  \/ NextScalpingCycle

SpecTiming == InitTiming /\ [][NextTiming]_vars

\* the orders of a sequence that are for symbol s
OrdersFor(orders, s) == { i \in 1..Len(orders) : orders[i].symbol = s }

\* C31: for a tracked scalping position held max_hold_seconds or longer the
\* timing check, which is the first step of the cycle, places exactly one
\* market order on the side opposite to the position's sign for |quantity|
\* shares; the position and its entry time leave tracking exactly when that
\* order is accepted, and a position whose close was rejected is sent a close
\* order again in the next cycle
C31_TimeLimitClose ==
  [][ (call.op = "cycle_start" /\ call'.op = "check_position_timing") =>
        /\ call'.cycle_log = << "check_position_timing" >>
        /\ \A s \in DOMAIN positions["scalping"] :
             IF s \in DOMAIN position_entry_times /\ position_entry_times[s] >= MaxHoldTicks
             THEN /\ Cardinality(OrdersFor(call'.orders, s)) = 1
                  /\ \A i \in OrdersFor(call'.orders, s) :
                       /\ call'.orders[i].order_type = "2"
                       /\ call'.orders[i].quantity = Abs(positions["scalping"][s].quantity)
                       /\ call'.orders[i].side =
                            (IF positions["scalping"][s].quantity > 0 THEN "-1" ELSE "1")
                  /\ (s \notin DOMAIN positions'["scalping"]) = (s \in call'.close_ok)
                  /\ (s \notin DOMAIN position_entry_times') = (s \in call'.close_ok)
             ELSE /\ OrdersFor(call'.orders, s) = {}
                  /\ s \in DOMAIN positions'["scalping"]
        /\ \A s \in call.rejected_before \cap DOMAIN positions["scalping"] :
             OrdersFor(call'.orders, s) # {} ]_vars

\* a short position whose close was rejected in one cycle is closed by an
\* accepted buy order in the next
C31_Witness ==
  /\ call.op = "check_position_timing"
  /\ call.rejected_before = {"TCS.NS"}
  /\ call.close_ok = {"TCS.NS"}
  /\ Len(call.orders) = 1
  /\ call.orders[1].side = "1"
  /\ positions["scalping"] = EmptyDict
  /\ position_entry_times = EmptyDict


\* the signal's confidence is below the strategy's threshold: 0.80 for
\* scalping, 0.6 for gap-short and breakout
BelowThreshold(t, signal) ==
  IF t = "scalping" THEN signal.confidence < 80 ELSE signal.confidence < 60

\* C32: from a signal whose confidence is below the strategy's min_confidence
\* no entry order is placed and no position is created
C32_ConfidenceThreshold ==
  (call.op = "execute_signal" /\ BelowThreshold(call.args.strategy, call.args.signal)) =>
    /\ ~InSeq("entry_order", cycle_log[call.args.strategy])
    /\ positions[call.args.strategy] = EmptyDict
    /\ accepted = 0

\* the gap-short loop has passed over a signal of confidence 0.5 with a
\* usable stop distance
C32_Witness ==
  /\ call.op = "execute_signal"
  /\ call.args.strategy = "gap_up"
  /\ call.args.signal.confidence = 50
  /\ calculate_position_size(call.args.signal) > 0
  /\ pending["gap_up"] = << >>
  /\ positions["gap_up"] = EmptyDict


(***************************************************************************)
(* The execution loop of the gap-short strategy in a later cycle: a        *)
(* position is held, StrategyConfig.max_positions leaves a slot, and the   *)
(* generator, which does not look at the positions, has returned signals.  *)
(***************************************************************************)
\* the position an earlier cycle recorded for a symbol: an earlier quote,
\* another size, the order of that cycle
EarlierPosition(t, sym) ==
  [PositionFor(t, sym) EXCEPT !.entry_price = 1990, !.quantity = 500]

InitHeld ==
  \E signal \in SignalInputs("gap_up"), held \in DOMAIN stock_sectors :
    /\ cfg \in Configs
    /\ cfg.max_positions = 2
    /\ clock = "signal_window"
    /\ main_pc = "gather"
    /\ main_log = << "should_allow_scalping", "gather" >>
    /\ cycles = 2
    /\ scalping_allowed = cfg.allow_scalping_during_signals
    /\ queue = IF scalping_allowed THEN QueueAt("gap_up") ELSE << "gap_up", "breakout" >>
    /\ pc = [u \in Strategies |->
               IF u = "gap_up" THEN "execute"
               ELSE IF InSeq(u, queue) THEN FirstStep(u) ELSE "idle"]
    /\ pending = [u \in Strategies |-> IF u = "gap_up" THEN << signal >> ELSE << >>]
    /\ cycle_log = [u \in Strategies |->
                      IF u = "gap_up" THEN << "monitor_positions", "generate_signals" >>
                      ELSE << >>]
    /\ positions = [u \in Strategies |->
                      IF u = "gap_up" THEN [s \in {held} |-> EarlierPosition("gap_up", s)]
                      ELSE EmptyDict]
    /\ position_entry_times = EmptyDict
    /\ recent_signals = EmptyDict
    /\ daily_pnl = [u \in Strategies |-> 0]
    /\ total_pnl = [u \in Strategies |-> 0]
    /\ trades_today = 0
    /\ total_portfolio_pnl = 0
    /\ daily_portfolio_pnl = 0
    /\ last_non_scalping_trade_time = None
    /\ last_activity_count = 1
    /\ accepted = 1
    /\ last_open_age = 1
    /\ close_orders = {}
    /\ call = [ op |-> "execute_signal",
                args |-> [ strategy |-> "gap_up", signal |-> signal,
                           held |-> [s \in {held} |-> EarlierPosition("gap_up", s)] ] ]
    /\ risk_manager = NoRiskManager

NextHeld ==
  \/ ExecuteSignal("gap_up")
  \/ ExecuteDone("gap_up")

SpecHeld == InitHeld /\ [][NextHeld]_vars

\* C33: for a symbol that is already a key of the strategy's positions the
\* strategy places no entry order, and the Position recorded for it stays as
\* it was
C33_NoOverwrite ==
  (call.op = "execute_signal" /\ call.args.signal.symbol \in DOMAIN call.args.held) =>
    /\ ~InSeq("entry_order", cycle_log[call.args.strategy])
    /\ call.args.signal.symbol \in DOMAIN positions[call.args.strategy]
    /\ positions[call.args.strategy][call.args.signal.symbol]
         = call.args.held[call.args.signal.symbol]


(***************************************************************************)
(* monitor_positions on what FyersService.get_positions returns            *)
(***************************************************************************)
\* FyersService.get_positions(): the symbols of netPositions, the empty list
\* when the request returns nothing or raises
get_positions(request_ok, net_positions) == IF request_ok THEN net_positions ELSE {}

ReconcileInputs ==
  [ positions      : { [s \in held |-> PositionFor("gap_up", s)] :
                         held \in SUBSET (DOMAIN Universe("gap_up")) },
    net_positions  : SUBSET (DOMAIN Universe("gap_up")),
    current_orders : OrderBooks("gap_up"),
    request_ok     : BOOLEAN ]

InitReconcile ==
  /\ Constructed
  /\ risk_manager = NoRiskManager
  /\ cfg.max_positions = 2
  /\ cfg.allow_scalping_during_signals
  /\ clock = "signal_window"
  /\ call \in [ op : {"input"}, args : ReconcileInputs, result : {NoCall} ]

\* monitor_positions(positions) with FyersService as the broker
ReconcileCall ==
  /\ call.op = "input"
  /\ call' = [ op     |-> "monitor_positions",
               args   |-> call.args,
               result |-> monitor_positions(call.args.positions,
                                            get_positions(call.args.request_ok,
                                                          call.args.net_positions),
                                            call.args.current_orders, {}, FALSE) ]
  /\ UNCHANGED rest_of_state

NextReconcile ==
  \/ ReconcileCall

SpecReconcile == InitReconcile /\ [][NextReconcile]_vars

\* C34: when the broker's open-positions request fails during
\* monitor_positions, no tracked position is removed and no realized P&L or
\* closed-position record is produced, whatever the order list reports
C34_FailedRequestRemovesNothing ==
  (call.op = "monitor_positions" /\ ~call.args.request_ok) =>
    /\ call.result.positions = call.args.positions
    /\ call.result.realized_pnl = 0
    /\ call.result.closed_positions = << >>


(***************************************************************************)
(* Entry with a dependent stop order (breakout and scalping), the          *)
(* time-limit close and the monitoring of the scalping strategy, with the  *)
(* stop orders live at the broker.  Here the Position records carry        *)
(* sl_order_id, and `call` holds what the broker and an observer know:     *)
(* stop_orders, the stop orders placed and neither executed nor cancelled; *)
(* left, the number of scalping positions that have left the positions     *)
(* map; realized, the sum of their realized P&L.                           *)
(***************************************************************************)
\* Position.sl_order_id = None
NoOrderId == << >>

\* Position(...) as the dataclass builds it: sl_order_id defaults to None
Tracked(position) ==
  [ symbol      |-> position.symbol,
    entry_price |-> position.entry_price,
    quantity    |-> position.quantity,
    stop_loss   |-> position.stop_loss,
    sector      |-> position.sector,
    order_id    |-> position.order_id,
    sl_order_id |-> NoOrderId ]

\* _place_stop_loss_order / _place_scalping_stop_loss: sl_order is the id the
\* broker returned, NoOrderId when place_order returned None or raised
place_stop_loss_order(position, sl_order) ==
  IF sl_order # NoOrderId THEN [position EXCEPT !.sl_order_id = sl_order] ELSE position

InitStops ==
  /\ Constructed
  /\ clock \in {"breakout_window", "midday"}
  /\ risk_manager = NoRiskManager
  /\ call = [ op |-> "start", stop_orders |-> {}, left |-> 0, realized |-> 0 ]

outside_strategies == << cfg, clock, main_pc, scalping_allowed, queue, pc, pending, recent_signals, total_portfolio_pnl, daily_portfolio_pnl, last_non_scalping_trade_time, last_activity_count, cycle_log, main_log, last_open_age, close_orders, cycles, risk_manager >>

\* _execute_breakout_signal(signal) with a slot free; order_ok, sl_ok: the
\* broker accepts the entry order, the stop order
ExecuteBreakoutWithStop ==
  /\ Count(positions["breakout"]) < cfg.max_positions_per_strategy
  /\ accepted < MaxEntries
  /\ \E sym \in DOMAIN breakout_stocks, order_ok \in BOOLEAN, sl_ok \in BOOLEAN :
       LET signal   == SignalFor("breakout", sym)
           quantity == calculate_position_size(signal)
           executed == execute_signal(positions["breakout"], signal,
                                      Tracked(NewPosition("breakout", signal, quantity)),
                                      order_ok)
           sl_order == IF sl_ok THEN << "sl", "breakout", sym >> ELSE NoOrderId
       IN  /\ quantity > 0
           /\ positions' =
                [positions EXCEPT !["breakout"] =
                   IF executed.returned
                   THEN Put(executed.positions, sym,
                            place_stop_loss_order(executed.positions[sym], sl_order))
                   ELSE executed.positions]
           /\ accepted' = IF order_ok THEN accepted + 1 ELSE accepted
           /\ call' = [call EXCEPT !.op = "execute_breakout_signal",
                                   !.stop_orders = IF executed.returned /\ sl_ok
                                                   THEN @ \cup {sl_order} ELSE @]
  /\ UNCHANGED << position_entry_times, trades_today, daily_pnl, total_pnl >>
  /\ UNCHANGED outside_strategies

\* _execute_scalping_signal(signal) with the slot free
ExecuteScalpingWithStop ==
  /\ Count(positions["scalping"]) < cfg.scalping_max_positions
  /\ accepted < MaxEntries
  /\ \E sym \in DOMAIN scalping_universe, sd \in {"LONG", "SHORT"},
        order_ok \in BOOLEAN, sl_ok \in BOOLEAN :
       LET signal   == MakeSignal("scalping", sym, [confidence |-> 90, side |-> sd])
           quantity == scalping_quantity(signal)
           executed == execute_signal(positions["scalping"], signal,
                                      Tracked(NewScalpingPosition(signal, quantity)),
                                      order_ok)
           sl_order == IF sl_ok THEN << "sl", "scalping", sym >> ELSE NoOrderId
       IN  /\ quantity > 0
           /\ positions' =
                [positions EXCEPT !["scalping"] =
                   IF executed.returned
                   THEN Put(executed.positions, sym,
                            place_stop_loss_order(executed.positions[sym], sl_order))
                   ELSE executed.positions]
           /\ position_entry_times' = IF executed.returned
                                      THEN Put(position_entry_times, sym, 0)
                                      ELSE position_entry_times
           /\ accepted' = IF order_ok THEN accepted + 1 ELSE accepted
           /\ call' = [call EXCEPT !.op = "execute_scalping_signal",
                                   !.stop_orders = IF executed.returned /\ sl_ok
                                                   THEN @ \cup {sl_order} ELSE @]
  /\ UNCHANGED << trades_today, daily_pnl, total_pnl >>
  /\ UNCHANGED outside_strategies

\* time passes while a scalping position is held
HoldTick ==
  /\ position_entry_times # EmptyDict
  /\ \E i \in DOMAIN position_entry_times : position_entry_times[i] < AgeCap
  /\ \E d \in 1..MaxStep : position_entry_times' = AgeAll(position_entry_times, d)
  /\ call' = [call EXCEPT !.op = "tick"]
  /\ UNCHANGED << positions, accepted, trades_today, daily_pnl, total_pnl >>
  /\ UNCHANGED outside_strategies

\* the sum of calculate_realized_pnl over the symbols of S
RECURSIVE RealizedOf(_, _)
RealizedOf(pos, S) ==
  IF S = {} THEN 0
  ELSE LET s == CHOOSE x \in S : TRUE
       IN  calculate_realized_pnl(pos[s]) + RealizedOf(pos, S \ {s})

\* _check_position_timing() of run_scalping_cycle: the close orders it sends
\* and what it removes; it cancels no order and books nothing
TimeLimitClose ==
  /\ positions_to_close(positions["scalping"], position_entry_times) # {}
  /\ \E close_ok \in SUBSET positions_to_close(positions["scalping"], position_entry_times) :
       LET result == check_position_timing(positions["scalping"], position_entry_times,
                                           close_ok)
           gone   == DOMAIN positions["scalping"] \ DOMAIN result.positions
       IN  /\ positions' = [positions EXCEPT !["scalping"] = result.positions]
           /\ position_entry_times' = result.position_entry_times
           /\ call' = [call EXCEPT !.op = "check_position_timing",
                                   !.left = @ + Cardinality(gone),
                                   !.realized = @ + RealizedOf(positions["scalping"], gone)]
  /\ UNCHANGED << accepted, trades_today, daily_pnl, total_pnl >>
  /\ UNCHANGED outside_strategies

\* monitor_positions(self.positions) of run_scalping_cycle and the
\* bookkeeping after it; stopped: the positions whose stop order the broker
\* has executed, which are then absent from the broker's positions
MonitorScalpingPositions ==
  /\ positions["scalping"] # EmptyDict
  /\ \E stopped \in SUBSET { s \in DOMAIN positions["scalping"] :
                              positions["scalping"][s].sl_order_id \in call.stop_orders } :
       LET broker_positions == DOMAIN positions["scalping"] \ stopped
           current_orders == [id \in { positions["scalping"][s].order_id :
                                         s \in DOMAIN positions["scalping"] } |-> "TRADED"]
           pnl_summary == monitor_positions(positions["scalping"], broker_positions,
                                            current_orders, {}, FALSE)
           gone == DOMAIN positions["scalping"] \ DOMAIN pnl_summary.positions
       IN  /\ positions' = [positions EXCEPT !["scalping"] = pnl_summary.positions]
           /\ daily_pnl' = [daily_pnl EXCEPT !["scalping"] = @ + pnl_summary.realized_pnl]
           /\ total_pnl' = [total_pnl EXCEPT !["scalping"] = @ + pnl_summary.realized_pnl]
           /\ trades_today' = trades_today + Len(pnl_summary.closed_positions)
           /\ call' = [call EXCEPT !.op = "monitor_positions",
                                   !.stop_orders = @ \ { positions["scalping"][s].sl_order_id :
                                                          s \in stopped },
                                   !.left = @ + Cardinality(gone),
                                   !.realized = @ + RealizedOf(positions["scalping"], gone)]
  /\ UNCHANGED << position_entry_times, accepted >>
  /\ UNCHANGED outside_strategies

NextStops ==
  \/ ExecuteBreakoutWithStop
  \/ ExecuteScalpingWithStop
  \/ HoldTick
  \/ TimeLimitClose
  \/ MonitorScalpingPositions

SpecStops == InitStops /\ [][NextStops]_vars

\* C35: every position tracked by the breakout or the scalping strategy has
\* a stop order: its sl_order_id is set
C35_TrackedPositionHasStop ==
  \A t \in {"breakout", "scalping"} :
    \A s \in DOMAIN positions[t] : positions[t][s].sl_order_id # NoOrderId

\* C36: every stop order live at the broker belongs to a position that is
\* still tracked
C36_NoOrphanStopOrder ==
  \A id \in call.stop_orders :
    \E t \in {"breakout", "scalping"} :
      \E s \in DOMAIN positions[t] : positions[t][s].sl_order_id = id

\* C37: every scalping position that has left the positions map has added
\* one to trades_today and its realized P&L once to daily_pnl and total_pnl
C37_ScalpingAccountingComplete ==
  /\ trades_today = call.left
  /\ daily_pnl["scalping"] = call.realized
  /\ total_pnl["scalping"] = call.realized


(***************************************************************************)
(* The P&L books of the strategies and of the scheduler, for one           *)
(* configuration started in the opening-range window                       *)
(***************************************************************************)
InitPortfolio ==
  /\ Init
  /\ cfg.max_positions = 1
  /\ cfg.allow_scalping_during_signals
  /\ clock = "breakout_window"

SpecPortfolio == InitPortfolio /\ [][Next]_vars

IndexSymbol == "NSE:NIFTY50-INDEX"

IndexQuotes == [ lp : {24900, 24950, 25200}, prev_close_price : {0, 24950} ]

QuoteResponses ==
  [ ok : BOOLEAN,
    result : UNION { [S -> IndexQuotes] : S \in SUBSET {IndexSymbol} } ]

\* the dictionary get_index_data returns when it has no quote
DefaultIndexData ==
  [ current_price |-> 25000, previous_close |-> 24950, gap_percentage |-> 2 ]

\* FyersService.get_index_data; the division by a previous close of 0 raises
\* inside the try
get_index_data(response) ==
  IF response.ok /\ IndexSymbol \in DOMAIN response.result
  THEN LET quote == response.result[IndexSymbol]
       IN  IF quote.prev_close_price = 0 THEN DefaultIndexData
           ELSE [ current_price  |-> quote.lp,
                  previous_close |-> quote.prev_close_price,
                  gap_percentage |-> ((quote.lp - quote.prev_close_price) * 1000)
                                       \div quote.prev_close_price ]
  ELSE DefaultIndexData

\* the symbols of the signals the execution loop sends an entry order for;
\* the confidence of these signals is in ten-thousandths, min_confidence in
\* hundredths
RECURSIVE OrdersOf(_)
OrdersOf(signals) ==
  IF signals = << >> THEN << >>
  ELSE IF Head(signals).confidence >= 100 * min_confidence("gap_up")
       THEN << Head(signals).symbol >> \o OrdersOf(Tail(signals))
       ELSE OrdersOf(Tail(signals))

RECURSIVE PutAll(_, _, _)
PutAll(pos, order, filled) ==
  IF order = << >> THEN pos
  ELSE PutAll(IF Head(order) \in filled
              THEN Put(pos, Head(order), PositionFor("gap_up", Head(order)))
              ELSE pos,
              Tail(order), filled)

InitIndex ==
  /\ Constructed
  /\ clock = "signal_window"
  /\ cfg.allow_scalping_during_signals
  /\ risk_manager = NoRiskManager
  /\ call \in [ op : {"input"}, response : QuoteResponses, quotes : QuoteDicts,
                index_data : {DefaultIndexData}, signals : {<< >>}, orders : {<< >>} ]

outside_gap_up == << cfg, clock, main_pc, scalping_allowed, queue, pc, pending, position_entry_times, recent_signals, daily_pnl, total_pnl, trades_today, total_portfolio_pnl, daily_portfolio_pnl, last_non_scalping_trade_time, last_activity_count, cycle_log, main_log, last_open_age, close_orders, cycles, risk_manager >>

\* _generate_and_execute_signals() with no position held; filled: the entry
\* orders the broker accepts
GenerateAndExecuteSignals ==
  /\ call.op = "input"
  /\ LET available_slots == cfg.max_positions - Count(positions["gap_up"])
         index_data == get_index_data(call.response)
         signals == generate_signals_of_quotes(index_data.gap_percentage, call.quotes)
         orders == OrdersOf(TopSignals(signals, available_slots))
     IN  /\ available_slots > 0
         /\ \E filled \in SUBSET { orders[i] : i \in 1..Len(orders) } :
              /\ positions' = [positions EXCEPT !["gap_up"] = PutAll(@, orders, filled)]
              /\ accepted' = accepted + Cardinality(filled)
         /\ call' = [call EXCEPT !.op = "generate_and_execute_signals",
                                 !.index_data = index_data,
                                 !.signals = signals,
                                 !.orders = orders]
  /\ UNCHANGED outside_gap_up

NextIndex ==
  \/ GenerateAndExecuteSignals

SpecIndex == InitIndex /\ [][NextIndex]_vars

\* C39: when the quotes request for the index fails or its answer has no
\* entry for the index, the gap-short strategy generates no signal and
\* sends no order in that cycle
C39_NoIndexNoSignals ==
  ( /\ call.op = "generate_and_execute_signals"
    /\ ~(call.response.ok /\ IndexSymbol \in DOMAIN call.response.result) )
  => /\ call.signals = << >>
     /\ call.orders = << >>
     /\ positions["gap_up"] = EmptyDict


(***************************************************************************)
(* load_enhanced_config: the process environment as the dictionary of the  *)
(* variables that are set, each with its string                            *)
(***************************************************************************)
AllowScalpingVar == "ALLOW_SCALPING_DURING_SIGNALS"

\* the process environments: the variable unset, or set to one of these
Environments ==
  [ {} -> {""} ]
  \cup [ {AllowScalpingVar} -> {"", "0", "False", "false", "True", "true", "1"} ]

\* the line the generated .env.scalping.template holds for the variable
EnvTemplate == [ v \in {AllowScalpingVar} |-> "False" ]

\* bool(os.environ.get(key, default)) for a default that is a bool: a string
\* is true when it is not empty
bool_of_environ(environ, key, default) ==
  IF key \in DOMAIN environ THEN Len(environ[key]) > 0 ELSE default

\* load_enhanced_config()['multi_strategy_scalping'].allow_scalping_during_signals
load_enhanced_config(environ) ==
  [ allow_scalping_during_signals |-> bool_of_environ(environ, AllowScalpingVar, FALSE) ]

InitConfig ==
  /\ Constructed
  /\ ~cfg.allow_scalping_during_signals
  /\ risk_manager = NoRiskManager
  /\ call \in [ op : {"input"}, environ : Environments, result : {FALSE} ]

\* main(): config = load_enhanced_config(), handed to the scheduler
LoadEnhancedConfig ==
  /\ call.op = "input"
  /\ cfg' = [cfg EXCEPT !.allow_scalping_during_signals =
                          load_enhanced_config(call.environ).allow_scalping_during_signals]
  /\ call' = [call EXCEPT !.op = "load_enhanced_config"]
  /\ UNCHANGED << clock, main_pc, scalping_allowed, queue, pc, main_log, cycles, risk_manager >>
  /\ UNCHANGED << strategy_state, coordination_state >>

\* _should_allow_scalping() of the first cycle, with the loaded configuration
ShouldAllowScalpingCall ==
  /\ call.op = "load_enhanced_config"
  /\ call' = [call EXCEPT !.op = "should_allow_scalping",
                          !.result = should_allow_scalping(cfg, last_non_scalping_trade_time,
                                                           clock, Count(positions["gap_up"]),
                                                           Count(positions["breakout"]))]
  /\ UNCHANGED rest_of_state

NextConfig ==
  \/ LoadEnhancedConfig
  \/ ShouldAllowScalpingCall

SpecConfig == InitConfig /\ [][NextConfig]_vars

\* C40: once the configuration is loaded, allow_scalping_during_signals is
\* false when ALLOW_SCALPING_DURING_SIGNALS is unset and when it is the
\* string 'False' of the generated template
C40_AllowScalpingDefaultsFalse ==
  ( /\ call.op # "input"
    /\ \/ AllowScalpingVar \notin DOMAIN call.environ
       \/ call.environ = EnvTemplate )
  => ~cfg.allow_scalping_during_signals

=============================================================================
